---------------------------- MODULE Spec2Model ----------------------------
(***************************************************************************)
(* A model of unifi-doctor:                                                *)
(*   - the rule tables of analysis/rules.py (channels_overlap_5g,          *)
(*     get_recommended_24g_channels, get_recommended_5g_channels),         *)
(*   - the RF analyzer of analysis/rf.py (analyze and its helpers),        *)
(*   - the layout engine of topology/layout.py (compute_layout),           *)
(*   - the map renderer of topology/renderer.py (AsciiCanvas, its          *)
(*     draw_line, render_topology_map),                                    *)
(*   - the concurrent fetch of api/client.py (UniFiClient.fetch_all),      *)
(*   - the apply-plan command of cli.py (apply_plan).                      *)
(* Python lists are sequences (index 0 of the code is index 1 here), sets  *)
(* and dict key sets are sets, dicts are kept as insertion-ordered         *)
(* sequences of keys where the code iterates over them.                    *)
(***************************************************************************)
EXTENDS Integers, Sequences, FiniteSets, TLC

VARIABLES
    ov_in,      \* arguments of the running channels_overlap_5g call
    ov_pc,      \* "call" before the call, "done" after it
    ov_out,     \* its outcome: [raised, value]
    r_in,       \* arguments of the running get_recommended_5g_channels call
    rec,        \* its frame: [pc, i, selected, used_ranges, result]
    snapshot,   \* the NetworkSnapshot handed to rf.analyze
    topology,   \* the Topology handed to rf.analyze
    a_calls,    \* how many times rf.analyze was called on them
    a_out,       \* outcome of the latest call: [raised, findings, plan]
    g_in,       \* argument num_aps of the running get_recommended_24g_channels call
    g24,         \* its frame: [pc, i, result]
    l_in,       \* arguments of compute_layout: [topology, iterations, seed]
    lay,        \* frame of the running call: [pc, positions, t, iteration, result]
    l_calls,    \* how many calls on these arguments have returned before
    l_prev,     \* the positions the call before returned
    rn_in,      \* arguments of render_topology_map: [topology, layout, canvas_width, canvas_height, client_counts]
    rn,         \* frame of the running call: [pc, canvas, link_lookup, k, i, sides, panel]
    rn_put,      \* the latest put_char call on a canvas of its own: [count, x, y, char]
    f_pc,       \* where the fetch_all call is: call, gather, returned, raised, analysis
    f_tasks,    \* the tasks of asyncio.gather, one per fetch: [state, result]
    f_snapshot, \* the NetworkSnapshot fetch_all returned
    f_handed,    \* the NetworkSnapshot handed to the analysis
    ln_in,      \* arguments of AsciiCanvas.draw_line: [canvas, x0, y0, x1, y1, char, style]
    ln,          \* frame of the running call: [pc, canvas, x0, y0, dx, dy, sx, sy, err, visited]
    apl_in,     \* the run of apply-plan: [devices, dry_run, answer, login_ok]
    apl         \* frame of _apply: [pc, plan, changes, listed, confirmed, k, sent, applied]

ovVars == <<ov_in, ov_pc, ov_out>>
recVars == <<r_in, rec>>
anVars == <<snapshot, topology, a_calls, a_out>>
rec24Vars == <<g_in, g24>>
layVars == <<l_in, lay, l_calls, l_prev>>
renVars == <<rn_in, rn, rn_put>>
fetchVars == <<f_pc, f_tasks, f_snapshot, f_handed>>
lineVars == <<ln_in, ln>>
applyVars == <<apl_in, apl>>
vars == <<ov_in, ov_pc, ov_out, r_in, rec, snapshot, topology, a_calls, a_out, g_in, g24, l_in, lay, l_calls, l_prev, rn_in, rn, rn_put, f_pc, f_tasks, f_snapshot, f_handed, ln_in, ln, apl_in, apl>>

---------------------------------------------------------------------------
(* Python built-ins the code relies on *)

\* min(S) of a non-empty set of integers
SetMin(S) == CHOOSE x \in S : \A y \in S : x <= y

\* sorted(S) for a set of integers: ascending list
RECURSIVE SortedList(_)
SortedList(S) ==
    IF S = {} THEN <<>>
    ELSE LET m == SetMin(S) IN <<m>> \o SortedList(S \ {m})

\* set(seq)
ToSet(seq) == {seq[k] : k \in 1..Len(seq)}

\* seq.index(x), 0-based, for x in seq
ListIndex(seq, x) == (CHOOSE k \in 1..Len(seq) : seq[k] = x /\ \A j \in 1..(k-1) : seq[j] # x) - 1

\* seq[a:b] for 0 <= a and 0 <= b (Python clips both ends to len(seq))
Slice(seq, a, b) ==
    LET hi == IF b < Len(seq) THEN b ELSE Len(seq)
    IN IF a >= hi THEN <<>> ELSE SubSeq(seq, a + 1, hi)

\* [x for x in seq if x not in excluded]
Without(seq, excluded) ==
    LET keep(x) == x \notin excluded IN SelectSeq(seq, keep)

---------------------------------------------------------------------------
(* analysis/rules.py: rule tables *)

VALID_24G_CHANNELS == {1, 6, 11}
NON_DFS_5G_CHANNELS == {36, 40, 44, 48, 149, 153, 157, 161, 165}
DFS_5G_CHANNELS == {52, 56, 60, 64, 100, 104, 108, 112, 116, 120, 124, 128, 132, 136, 140, 144}
ALL_5G_CHANNELS == NON_DFS_5G_CHANNELS \cup DFS_5G_CHANNELS

RECOMMENDED_5G_WIDTH_DEFAULT == 40
MAX_NEIGHBORS_FOR_80MHZ == 3
CHANNEL_UTIL_WARNING_PCT == 50
NOISE_FLOOR_WARNING_DBM == -90
RECOMMENDED_24G_POWER == "low"
RECOMMENDED_5G_INDOOR_POWER == "medium"
RECOMMENDED_5G_OUTDOOR_POWER == "high"

\* channel_range with the group taken from the channel's own index instead of
\* the aligned group start
channel_range_unaligned(ch, width) ==
    LET base_channels == SortedList(ALL_5G_CHANNELS) IN
    IF ch \notin ALL_5G_CHANNELS
    THEN [raised |-> FALSE, range |-> {ch}]
    ELSE LET idx == ListIndex(base_channels, ch)
             n_channels == width \div 20
         IN IF n_channels = 0
            THEN [raised |-> TRUE, range |-> {}]
            ELSE [raised |-> FALSE,
                  range |-> ToSet(Slice(base_channels, idx, idx + n_channels))]

\* channel_range(ch, width), the inner function of channels_overlap_5g, for
\* width >= 0.  base_channels.index(ch) raising ValueError is caught and gives
\* {ch}; idx // n_channels with n_channels = 0 raises ZeroDivisionError.
channel_range(ch, width) ==
    LET base_channels == SortedList(ALL_5G_CHANNELS) IN
    IF ch \notin ALL_5G_CHANNELS
    THEN [raised |-> FALSE, range |-> {ch}]
    ELSE LET idx == ListIndex(base_channels, ch)
             n_channels == width \div 20
         IN IF n_channels = 0
            THEN [raised |-> TRUE, range |-> {}]
            ELSE LET group_start == (idx \div n_channels) * n_channels
                 IN [raised |-> FALSE,
                     range |-> ToSet(Slice(base_channels, group_start, group_start + n_channels))]

\* channels_overlap_5g(ch1, ch2, width1, width2): [raised, value]
channels_overlap_5g(ch1, ch2, width1, width2) ==
    LET r1 == channel_range(ch1, width1) IN
    IF r1.raised THEN [raised |-> TRUE, value |-> FALSE]
    ELSE LET r2 == channel_range(ch2, width2) IN
         IF r2.raised THEN [raised |-> TRUE, value |-> FALSE]
         ELSE [raised |-> FALSE, value |-> (r1.range \cap r2.range) # {}]

is_valid_24g_channel(ch) == ch \in VALID_24G_CHANNELS

\* get_recommended_24g_channels(num_aps)
get_recommended_24g_channels(num_aps) ==
    LET base == <<1, 6, 11>> IN
    [k \in 1..num_aps |-> base[((k - 1) % 3) + 1]]

\* base = [1, 6, 11]
BASE_24G == <<1, 6, 11>>

\* the loop cycling through four channels five apart: 1, 6, 11, 16
Base24AtFourCycle(i) == 1 + 5 * (i % 4)

\* base[i % 3]
Base24At(i) == BASE_24G[(i % 3) + 1]

\* no call of get_recommended_24g_channels is running
Rec24IdleFrame == [pc |-> "idle", i |-> 0, result |-> <<>>]
Rec24Idle == g_in = 0 /\ g24 = Rec24IdleFrame

\* the frame at entry of the loop: result = []
Rec24Start == [pc |-> "loop", i |-> 0, result |-> <<>>]

\* one iteration of `for i in range(num_aps)`: result.append(base[i % 3])
Rec24Iter(f) == [f EXCEPT !.result = Append(@, Base24At(f.i)), !.i = @ + 1]

\* return result
Rec24Done(f) == [f EXCEPT !.pc = "done"]

---------------------------------------------------------------------------
(* analysis/rules.py: get_recommended_5g_channels *)

\* the sort key (c in neighbor_channels, c) compared as Python compares tuples
KeyLess(a, b, neighbor_channels) ==
    LET ka == IF a \in neighbor_channels THEN 1 ELSE 0
        kb == IF b \in neighbor_channels THEN 1 ELSE 0
    IN ka < kb \/ (ka = kb /\ a < b)

\* list.sort(key=...): stable insertion of x behind every element not greater
RECURSIVE InsertByKey(_, _, _)
InsertByKey(sorted, x, neighbor_channels) ==
    IF sorted = <<>> THEN <<x>>
    ELSE IF KeyLess(x, Head(sorted), neighbor_channels)
         THEN <<x>> \o sorted
         ELSE <<Head(sorted)>> \o InsertByKey(Tail(sorted), x, neighbor_channels)

RECURSIVE SortByKey(_, _)
SortByKey(seq, neighbor_channels) ==
    IF seq = <<>> THEN <<>>
    ELSE InsertByKey(SortByKey(SubSeq(seq, 1, Len(seq) - 1), neighbor_channels),
                     seq[Len(seq)], neighbor_channels)

FALLBACK_5G == <<149, 153, 157, 161, 36, 40, 44, 48>>

\* the candidate list with the DFS channels kept although radar was seen
CandidatesKeepDFS(has_radar_events, neighbor_channels) ==
    LET preferred == SortedList(DFS_5G_CHANNELS)
        cands == preferred \o Without(FALLBACK_5G, ToSet(preferred))
    IN SortByKey(cands, neighbor_channels)

\* the candidate list left in its preference order, the sort left out
CandidatesUnsorted(has_radar_events, neighbor_channels) ==
    LET preferred == IF ~has_radar_events THEN SortedList(DFS_5G_CHANNELS) ELSE <<>>
    IN preferred \o Without(FALLBACK_5G, ToSet(preferred))

\* the candidate list of get_recommended_5g_channels after its sort
Candidates(has_radar_events, neighbor_channels) ==
    LET preferred == IF ~has_radar_events THEN SortedList(DFS_5G_CHANNELS) ELSE <<>>
        cands == preferred \o Without(FALLBACK_5G, ToSet(preferred))
    IN SortByKey(cands, neighbor_channels)

\* the two 20 MHz channels a 40 MHz assignment of ch is taken to use
Pair40(ch) == IF ch % 8 = 0 THEN {ch, ch + 4} ELSE {ch - 4, ch}

\* no call of get_recommended_5g_channels is running
RecIdle == [pc |-> "idle", i |-> 1, selected |-> <<>>, used_ranges |-> {}, result |-> <<>>]

\* the frame at entry of the greedy loop
RecStart == [pc |-> "greedy", i |-> 1, selected |-> <<>>, used_ranges |-> {}, result |-> <<>>]

\* the greedy loop accepting every candidate, whatever ranges are in use
GreedyIterAcceptAll(f, num_aps, candidates) ==
    LET sel == Append(f.selected, candidates[f.i])
        stop == Len(sel) >= num_aps \/ f.i = Len(candidates)
    IN [f EXCEPT !.selected = sel,
                 !.used_ranges = f.used_ranges \cup Pair40(candidates[f.i]),
                 !.i = f.i + 1,
                 !.pc = IF stop THEN "fill" ELSE "greedy"]

\* one iteration of `for ch in candidates` (the greedy loop)
GreedyIter(f, num_aps, candidates) ==
    LET ch == candidates[f.i]
        pair == Pair40(ch)
        accept == (pair \cap f.used_ranges) = {}
        sel == IF accept THEN Append(f.selected, ch) ELSE f.selected
        stop == (accept /\ Len(sel) >= num_aps) \/ f.i = Len(candidates)
    IN [f EXCEPT !.selected = sel,
                 !.used_ranges = IF accept THEN f.used_ranges \cup pair ELSE f.used_ranges,
                 !.i = f.i + 1,
                 !.pc = IF stop THEN "fill" ELSE "greedy"]

\* the fill loop appending the first candidate whatever is already selected
FillIterRepeat(f, num_aps, candidates) ==
    IF Len(f.selected) < num_aps /\ Len(f.selected) < Len(candidates)
    THEN [f EXCEPT !.selected = Append(f.selected, candidates[1])]
    ELSE [f EXCEPT !.pc = "return"]

\* the fill loop left out
FillIterSkip(f, num_aps, candidates) == [f EXCEPT !.pc = "return"]

\* one iteration of `while len(selected) < num_aps` (the fill loop)
FillIter(f, num_aps, candidates) ==
    IF Len(f.selected) < num_aps
    THEN LET remaining == Without(candidates, ToSet(f.selected)) IN
         IF remaining # <<>>
         THEN [f EXCEPT !.selected = Append(f.selected, Head(remaining))]
         ELSE [f EXCEPT !.pc = "return"]
    ELSE [f EXCEPT !.pc = "return"]

\* return selected[:num_aps]
ReturnSelected(f, num_aps) ==
    [f EXCEPT !.result = Slice(f.selected, 0, num_aps), !.pc = "done"]

RecStep(f, num_aps, candidates) ==
    CASE f.pc = "greedy" -> GreedyIter(f, num_aps, candidates)
      [] f.pc = "fill"   -> FillIter(f, num_aps, candidates)
      [] f.pc = "return" -> ReturnSelected(f, num_aps)
      [] OTHER           -> f

RECURSIVE RecRun(_, _, _)
RecRun(f, num_aps, candidates) ==
    IF f.pc = "done" THEN f ELSE RecRun(RecStep(f, num_aps, candidates), num_aps, candidates)

\* get_recommended_5g_channels(num_aps, has_radar_events, neighbor_channels)
get_recommended_5g_channels(num_aps, has_radar_events, neighbor_channels) ==
    RecRun(RecStart, num_aps, Candidates(has_radar_events, neighbor_channels)).result

---------------------------------------------------------------------------
(* models/types.py and api/client.py: the data rf.analyze reads *)

\* a channel field (int | str): an integer or a text
IntCh(n) == [str |-> FALSE, num |-> n, txt |-> ""]
StrCh(t) == [str |-> TRUE, num |-> 0, txt |-> t]

\* RadioTableEntry, the fields rf.analyze reads
RadioTableEntry(radio, channel, ht, tx_power_mode, tx_power, cu_total, noise_floor) ==
    [radio |-> radio, channel |-> channel, ht |-> ht, tx_power_mode |-> tx_power_mode,
     tx_power |-> tx_power, cu_total |-> cu_total, noise_floor |-> noise_floor]

\* RadioTableStatsEntry, the fields rf.analyze reads
RadioTableStatsEntry(channel, cu_total, noise_floor) ==
    [channel |-> channel, cu_total |-> cu_total, noise_floor |-> noise_floor]

\* is_ap taking every adopted device for an access point
is_ap_any_device(d) == d.type \in {"uap", "usw"}

\* DeviceInfo.is_ap
is_ap(d) == d.type \in {"uap"}

\* NetworkSnapshot.aps
SnapshotAps(snap) == SelectSeq(snap.devices, is_ap)

EmptySnapshot == [devices |-> <<>>, rogue_aps |-> <<>>, events |-> <<>>]
EmptyTopology == [placements |-> <<>>, links |-> <<>>]

---------------------------------------------------------------------------
(* Python built-ins the analyzer relies on *)

\* int(text) for the texts of the model; any other text raises ValueError
DecimalTexts == {"0", "6", "36"}
IntOfText(t) == CASE t = "0" -> 0 [] t = "6" -> 6 [] t = "36" -> 36

\* bool(x) for a channel field as the operand of `or`
Truthy(raw) == IF raw.str THEN raw.txt # "" ELSE raw.num # 0

\* str.lower() on a text kept as a list of characters
LowerChar(c) ==
    CASE c = "R" -> "r" [] c = "A" -> "a" [] c = "D" -> "d" [] OTHER -> c
Lower(text) == [k \in 1..Len(text) |-> LowerChar(text[k])]

\* needle in hay, for texts kept as lists of characters
Contains(hay, needle) ==
    \E k \in 0..(Len(hay) - Len(needle)) : SubSeq(hay, k + 1, k + Len(needle)) = needle

RECURSIVE Flatten(_)
\* the concatenation of a list of lists
Flatten(lists) ==
    IF lists = <<>> THEN <<>> ELSE Head(lists) \o Flatten(Tail(lists))

\* the distinct elements of a list in order of first occurrence (dict keys)
RECURSIVE KeysInOrder(_)
KeysInOrder(seq) ==
    IF seq = <<>> THEN <<>>
    ELSE LET front == KeysInOrder(SubSeq(seq, 1, Len(seq) - 1))
             x == seq[Len(seq)]
         IN IF x \in ToSet(front) THEN front ELSE Append(front, x)

---------------------------------------------------------------------------
(* analysis/rf.py *)

\* _parse_channel(ch)
_parse_channel(raw) ==
    IF ~raw.str THEN raw.num
    ELSE IF raw.txt \in DecimalTexts THEN IntOfText(raw.txt) ELSE 0

\* the empty dict {} of the lookups below
NoEntry ==
    [found |-> FALSE, channel |-> IntCh(0), ht |-> 0, tx_power_mode |-> "",
     tx_power |-> 0, cu_total |-> 0, noise_floor |-> 0]

\* model_dump() of a radio_table entry
DumpRadio(rt) ==
    [found |-> TRUE, channel |-> rt.channel, ht |-> rt.ht, tx_power_mode |-> rt.tx_power_mode,
     tx_power |-> rt.tx_power, cu_total |-> rt.cu_total, noise_floor |-> rt.noise_floor]

\* model_dump() of a radio_table_stats entry (it has no ht or tx_power keys,
\* and none is read from it)
DumpStats(rs) ==
    [found |-> TRUE, channel |-> rs.channel, ht |-> 0, tx_power_mode |-> "",
     tx_power |-> 0, cu_total |-> rs.cu_total, noise_floor |-> rs.noise_floor]

RadioIsBand(radio, band) ==
    IF band = "2g" THEN radio \in {"ng", "ra0"} ELSE radio \in {"na", "rai0", "ra1"}

ChannelIsBand(ch, band) ==
    IF band = "2g" THEN 0 < ch /\ ch <= 14 ELSE ch > 14

\* _get_radio_stats(ap, band)
_get_radio_stats(ap, band) ==
    LET statHit(rs) == ChannelIsBand(_parse_channel(rs.channel), band)
        hits == SelectSeq(ap.radio_table_stats, statHit)
        radioHit(rt) == RadioIsBand(rt.radio, band)
        fallback == SelectSeq(ap.radio_table, radioHit)
    IN IF hits # <<>> THEN DumpStats(Head(hits))
       ELSE IF fallback # <<>> THEN DumpRadio(Head(fallback))
       ELSE NoEntry

\* _get_radio_config(ap, band)
_get_radio_config(ap, band) ==
    LET hit(rt) == RadioIsBand(rt.radio, band)
                    \/ ChannelIsBand(_parse_channel(rt.channel), band)
        hits == SelectSeq(ap.radio_table, hit)
    IN IF hits # <<>> THEN DumpRadio(Head(hits)) ELSE NoEntry

\* _parse_channel(stats.get("channel") or cfg.get("channel", 0))
EffectiveChannel(stats, cfg) ==
    IF stats.found /\ Truthy(stats.channel) THEN _parse_channel(stats.channel)
    ELSE IF cfg.found THEN _parse_channel(cfg.channel)
    ELSE 0

\* the body of the per-AP collection loop: what the four dicts hold for ap
ApInfo(ap) ==
    LET cfg_2g == _get_radio_config(ap, "2g")
        cfg_5g == _get_radio_config(ap, "5g")
        stats_2g == _get_radio_stats(ap, "2g")
        stats_5g == _get_radio_stats(ap, "5g")
    IN [mac |-> ap.mac,
        ch_2g |-> EffectiveChannel(stats_2g, cfg_2g),
        ch_5g |-> EffectiveChannel(stats_5g, cfg_5g),
        w_2g |-> IF cfg_2g.found THEN cfg_2g.ht ELSE 20,
        w_5g |-> IF cfg_5g.found THEN cfg_5g.ht ELSE 40]

\* a Finding: severity, the check that made it, and the values its title shows
\* (a MAC is a positive integer here, 0 where the title names no AP)
Finding(severity, kind, mac, mac2, band, ch, ch2, width, width2, value, names) ==
    [severity |-> severity, kind |-> kind, mac |-> mac, mac2 |-> mac2, band |-> band,
     ch |-> ch, ch2 |-> ch2, width |-> width, width2 |-> width2, value |-> value,
     names |-> names]

NoApsFinding == Finding("warning", "No APs found", 0, 0, "", 0, 0, 0, 0, 0, <<>>)

\* 1. Invalid 2.4 GHz channels
InvalidChannelFindings(info) ==
    Flatten([k \in 1..Len(info) |->
        IF info[k].ch_2g # 0 /\ ~is_valid_24g_channel(info[k].ch_2g)
        THEN <<Finding("warning", "Invalid 2.4 GHz channel", info[k].mac, 0, "2g",
                       info[k].ch_2g, 0, 0, 0, 0, <<>>)>>
        ELSE <<>>])

\* 2. 2.4 GHz channel width
Width24Findings(info) ==
    Flatten([k \in 1..Len(info) |->
        IF info[k].w_2g > 20
        THEN <<Finding("warning", "2.4 GHz width", info[k].mac, 0, "2g",
                       0, 0, info[k].w_2g, 0, 0, <<>>)>>
        ELSE <<>>])

\* ap_channels_5g as the list of its items: the APs with a known 5 GHz channel
Known5g(info) ==
    LET known(r) == r.ch_5g # 0 IN SelectSeq(info, known)

\* 3. Duplicate 5 GHz channels
SharedChannelFindings(info) ==
    LET known == Known5g(info)
        chans == KeysInOrder([k \in 1..Len(known) |-> known[k].ch_5g])
    IN Flatten([c \in 1..Len(chans) |->
        LET on(r) == r.ch_5g = chans[c]
            macs == SelectSeq(known, on)
        IN IF Len(macs) > 1
           THEN <<Finding("critical", "5 GHz channel shared by", 0, 0, "5g",
                          chans[c], 0, 0, 0, Len(macs),
                          [m \in 1..Len(macs) |-> macs[m].mac])>>
           ELSE <<>>])

\* 4. the pairs (i, j), i < j, of known-5 GHz APs the overlap test is called on
OverlapTested(known, i, j) == known[i].ch_5g # known[j].ch_5g

\* 4. whether some call of channels_overlap_5g in the pair loop raises
OverlapRaises(info) ==
    LET known == Known5g(info) IN
    \E i, j \in 1..Len(known) :
        /\ i < j
        /\ OverlapTested(known, i, j)
        /\ channels_overlap_5g(known[i].ch_5g, known[j].ch_5g,
                               known[i].w_5g, known[j].w_5g).raised

\* 4. Adjacent/overlapping 5 GHz channels
OverlapFindings(info) ==
    LET known == Known5g(info) IN
    Flatten([i \in 1..Len(known) |->
        Flatten([d \in 1..(Len(known) - i) |->
            LET j == i + d IN
            IF /\ OverlapTested(known, i, j)
               /\ channels_overlap_5g(known[i].ch_5g, known[j].ch_5g,
                                      known[i].w_5g, known[j].w_5g).value
            THEN <<Finding("warning", "5 GHz channel overlap", known[i].mac, known[j].mac,
                           "5g", known[i].ch_5g, known[j].ch_5g,
                           known[i].w_5g, known[j].w_5g, 0, <<>>)>>
            ELSE <<>>])])

Bands == <<"2g", "5g">>

\* 5. Channel utilization
UtilizationFindings(aps) ==
    Flatten([k \in 1..Len(aps) |->
        Flatten([b \in 1..2 |->
            LET stats == _get_radio_stats(aps[k], Bands[b])
                cu == IF stats.found THEN stats.cu_total ELSE 0
            IN IF cu > CHANNEL_UTIL_WARNING_PCT
               THEN <<Finding("warning", "channel utilization", aps[k].mac, 0, Bands[b],
                              0, 0, 0, 0, cu, <<>>)>>
               ELSE <<>>])])

\* 6. Noise floor
NoiseFloorFindings(aps) ==
    Flatten([k \in 1..Len(aps) |->
        Flatten([b \in 1..2 |->
            LET stats == _get_radio_stats(aps[k], Bands[b])
                nf == IF stats.found THEN stats.noise_floor ELSE -100
            IN IF nf > NOISE_FLOOR_WARNING_DBM
               THEN <<Finding("warning", "noise floor", aps[k].mac, 0, Bands[b],
                              0, 0, 0, 0, nf, <<>>)>>
               ELSE <<>>])])

\* 7. the neighbor dicts as lists of [ch, count] in insertion order
NeighborCounts(rogue_aps, band) ==
    LET inBand(ch) == ChannelIsBand(ch, band)
        chans == SelectSeq(rogue_aps, inBand)
        keys == KeysInOrder(chans)
    IN [k \in 1..Len(keys) |->
          [ch |-> keys[k],
           count |-> Cardinality({n \in 1..Len(chans) : chans[n] = keys[k]})]]

RECURSIVE SumCounts(_)
SumCounts(items) ==
    IF items = <<>> THEN 0 ELSE Head(items).count + SumCounts(Tail(items))

TotalNeighbors(rogue_aps) ==
    SumCounts(NeighborCounts(rogue_aps, "2g")) + SumCounts(NeighborCounts(rogue_aps, "5g"))

\* sorted(items, key=lambda x: -x[1]): stable, largest count first
RECURSIVE InsertByCount(_, _)
InsertByCount(sorted, x) ==
    IF sorted = <<>> THEN <<x>>
    ELSE IF x.count > Head(sorted).count
         THEN <<x>> \o sorted
         ELSE <<Head(sorted)>> \o InsertByCount(Tail(sorted), x)

RECURSIVE SortByCount(_)
SortByCount(items) ==
    IF items = <<>> THEN <<>>
    ELSE InsertByCount(SortByCount(SubSeq(items, 1, Len(items) - 1)), items[Len(items)])

\* 7. Neighbor interference analysis
NeighborFindings(rogue_aps) ==
    IF TotalNeighbors(rogue_aps) > 0
    THEN LET top == Slice(SortByCount(NeighborCounts(rogue_aps, "2g")), 0, 3) IN
         Flatten([k \in 1..Len(top) |->
            IF top[k].count >= 5
            THEN <<Finding("info", "neighboring networks detected", 0, 0, "2g",
                           top[k].ch, 0, 0, 0, top[k].count, <<>>)>>
            ELSE <<>>])
    ELSE <<>>

\* 8. 5 GHz channel width check
Width5gFindings(info, total_neighbors) ==
    Flatten([k \in 1..Len(info) |->
        IF info[k].w_5g >= 80 /\ total_neighbors > MAX_NEIGHBORS_FOR_80MHZ
        THEN <<Finding("warning", "5 GHz width with many neighbors", info[k].mac, 0, "5g",
                       0, 0, info[k].w_5g, 0, total_neighbors, <<>>)>>
        ELSE <<>>])

\* 9. 2.4 GHz power too high
PowerFindings(aps) ==
    Flatten([k \in 1..Len(aps) |->
        LET cfg == _get_radio_config(aps[k], "2g")
            power_mode == IF cfg.found THEN cfg.tx_power_mode ELSE "auto"
            tx_power == IF cfg.found THEN cfg.tx_power ELSE 0
        IN IF power_mode = "high" \/ (power_mode = "custom" /\ tx_power > 17)
           THEN <<Finding("warning", "2.4 GHz power is too high", aps[k].mac, 0, "2g",
                          0, 0, 0, 0, tx_power, <<>>)>>
           ELSE <<>>])

\* 10. has_radar: any event whose key or msg mentions radar in any case
RADAR == <<"r", "a", "d", "a", "r">>
HasRadar(events) ==
    \E k \in 1..Len(events) :
        Contains(Lower(events[k].key), RADAR) \/ Contains(Lower(events[k].msg), RADAR)

\* is_outdoor taking any placed AP for an outdoor one
IsOutdoorAnyFloor(topo, mac) ==
    \E k \in 1..Len(topo.placements) : topo.placements[k].mac = mac

\* placement_map.get(ap.mac): the last placement with that MAC, if any
IsOutdoor(topo, mac) ==
    LET mine(p) == p.mac = mac
        hits == SelectSeq(topo.placements, mine)
    IN hits # <<>> /\ hits[Len(hits)].floor = "detached"

\* a ChannelPlan row
ChannelPlan(ap_mac, band, current_channel, recommended_channel, current_width, recommended_width, current_power, recommended_power, dfs_preferred) ==
    [ap_mac |-> ap_mac, band |-> band, current_channel |-> current_channel,
     recommended_channel |-> recommended_channel, current_width |-> current_width,
     recommended_width |-> recommended_width, current_power |-> current_power,
     recommended_power |-> recommended_power, dfs_preferred |-> dfs_preferred]

\* 10. the two rows the plan loop appends for the AP at index i (0-based)
PlanRows(ap, r, i, rec_2g_channels, rec_5g_channels, has_radar, topo) ==
    LET cfg_2g == _get_radio_config(ap, "2g")
        cfg_5g == _get_radio_config(ap, "5g")
        rec_2g == IF i < Len(rec_2g_channels) THEN rec_2g_channels[i + 1] ELSE 1
        rec_5g == IF i < Len(rec_5g_channels) THEN rec_5g_channels[i + 1] ELSE 36
        rec_power == IF IsOutdoor(topo, ap.mac) THEN RECOMMENDED_5G_OUTDOOR_POWER
                     ELSE RECOMMENDED_5G_INDOOR_POWER
    IN <<ChannelPlan(ap.mac, "2g", r.ch_2g, rec_2g, r.w_2g, 20,
                     IF cfg_2g.found THEN cfg_2g.tx_power_mode ELSE "auto",
                     RECOMMENDED_24G_POWER, ~has_radar),
         ChannelPlan(ap.mac, "5g", r.ch_5g, rec_5g, r.w_5g,
                     RECOMMENDED_5G_WIDTH_DEFAULT,
                     IF cfg_5g.found THEN cfg_5g.tx_power_mode ELSE "auto",
                     rec_power, ~has_radar)>>

\* the plan with the radar test comparing the texts as they are, not lowered
GeneratePlanCaseSensitive(aps, info, snap, topo) ==
    LET has_radar == \E k \in 1..Len(snap.events) :
                        Contains(snap.events[k].key, RADAR) \/ Contains(snap.events[k].msg, RADAR)
        counts_5g == NeighborCounts(snap.rogue_aps, "5g")
        neighbor_5g_set == {counts_5g[k].ch : k \in 1..Len(counts_5g)}
        rec_5g_channels == get_recommended_5g_channels(Len(aps), has_radar, neighbor_5g_set)
        rec_2g_channels == get_recommended_24g_channels(Len(aps))
    IN Flatten([k \in 1..Len(aps) |->
          PlanRows(aps[k], info[k], k - 1, rec_2g_channels, rec_5g_channels, has_radar, topo)])

\* 10. Generate channel plan
GeneratePlan(aps, info, snap, topo) ==
    LET has_radar == HasRadar(snap.events)
        counts_5g == NeighborCounts(snap.rogue_aps, "5g")
        neighbor_5g_set == {counts_5g[k].ch : k \in 1..Len(counts_5g)}
        rec_5g_channels == get_recommended_5g_channels(Len(aps), has_radar, neighbor_5g_set)
        rec_2g_channels == get_recommended_24g_channels(Len(aps))
    IN Flatten([k \in 1..Len(aps) |->
          PlanRows(aps[k], info[k], k - 1, rec_2g_channels, rec_5g_channels, has_radar, topo)])

\* Mark good things
GoodFindings(info) ==
    LET known2(r) == r.ch_2g # 0
        known_2g == SelectSeq(info, known2)
        known_5g == Known5g(info)
        all_2g_valid == \A k \in 1..Len(known_2g) : is_valid_24g_channel(known_2g[k].ch_2g)
        unique_5g == IF known_5g # <<>>
                     THEN Cardinality({known_5g[k].ch_5g : k \in 1..Len(known_5g)}) = Len(known_5g)
                     ELSE FALSE
    IN (IF all_2g_valid /\ known_2g # <<>>
        THEN <<Finding("good", "All 2.4 GHz channels are valid", 0, 0, "2g",
                       0, 0, 0, 0, 0, <<>>)>>
        ELSE <<>>)
       \o (IF unique_5g /\ Len(known_5g) > 1
           THEN <<Finding("good", "All 5 GHz channels are unique", 0, 0, "5g",
                          0, 0, 0, 0, 0, <<>>)>>
           ELSE <<>>)

\* the outcome of a call that raised: the caller gets neither list
Raised == [raised |-> TRUE, findings |-> <<>>, plan |-> <<>>]
NoOutcome == [raised |-> FALSE, findings |-> <<>>, plan |-> <<>>]

\* analyze(snapshot, topology): [raised, findings, plan]
analyze(snap, topo) ==
    LET aps == SnapshotAps(snap) IN
    IF aps = <<>>
    THEN [raised |-> FALSE, findings |-> <<NoApsFinding>>, plan |-> <<>>]
    ELSE LET info == [k \in 1..Len(aps) |-> ApInfo(aps[k])] IN
         IF OverlapRaises(info) THEN Raised
         ELSE [raised |-> FALSE,
               findings |-> InvalidChannelFindings(info)
                            \o Width24Findings(info)
                            \o SharedChannelFindings(info)
                            \o OverlapFindings(info)
                            \o UtilizationFindings(aps)
                            \o NoiseFloorFindings(aps)
                            \o NeighborFindings(snap.rogue_aps)
                            \o Width5gFindings(info, TotalNeighbors(snap.rogue_aps))
                            \o PowerFindings(aps)
                            \o GoodFindings(info),
               plan |-> GeneratePlan(aps, info, snap, topo)]

---------------------------------------------------------------------------
(* Python floats: binary floating point rounded to nearest, ties to even.  *)
(* A float is [m, e] with value m * 2^e, |m| in [2^(Precision-1),          *)
(* 2^Precision) or m = 0 = e; the exponent is not bounded. The build has   *)
(* 53 significant bits; 0.05, 0.9 and 0.95 have binary expansions of       *)
(* period 4, so a significand of 13 = 53 - 4 * 10 bits rounds them, their  *)
(* sums and their products by 1.0 in the same direction as the build does. *)

Precision == 13

Abs(x) == IF x < 0 THEN -x ELSE x
Sgn(x) == IF x < 0 THEN -1 ELSE 1

\* int.bit_length()
RECURSIVE BitLen(_)
BitLen(M) == IF M = 0 THEN 0 ELSE 1 + BitLen(M \div 2)

\* floor of the square root, searched between lo and hi
RECURSIVE ISqrtIn(_, _, _)
ISqrtIn(M, lo, hi) ==
    IF lo = hi THEN lo
    ELSE LET mid == (lo + hi + 1) \div 2
         IN IF mid * mid <= M THEN ISqrtIn(M, mid, hi) ELSE ISqrtIn(M, lo, mid - 1)

ISqrt(M) == ISqrtIn(M, 0, 2^15)

FZero == [m |-> 0, e |-> 0]

\* the float nearest to sgn * (M + tail) * 2^E, where 0 <= tail < 1 and
\* tail > 0 exactly when sticky; a sticky M has more than Precision bits
FRound(sgn, M, sticky, E) ==
    IF M = 0 THEN FZero
    ELSE LET len == BitLen(M) IN
         IF len <= Precision
         THEN [m |-> sgn * M * 2^(Precision - len), e |-> E - (Precision - len)]
         ELSE LET d == len - Precision
                  q == M \div 2^d
                  r == M % 2^d
                  half == 2^(d - 1)
                  up == r > half \/ (r = half /\ (sticky \/ q % 2 = 1))
                  q1 == IF up THEN q + 1 ELSE q
              IN IF q1 = 2^Precision
                 THEN [m |-> sgn * 2^(Precision - 1), e |-> E + d + 1]
                 ELSE [m |-> sgn * q1, e |-> E + d]

\* float(i)
FromInt(i) == FRound(Sgn(i), Abs(i), FALSE, 0)

\* -a
FNeg(a) == [m |-> -a.m, e |-> a.e]

\* a + b; an addend below an eighth of the other's last place does not count
FAdd(a, b) ==
    IF a.m = 0 THEN b
    ELSE IF b.m = 0 THEN a
    ELSE LET hi == IF a.e >= b.e THEN a ELSE b
             lo == IF a.e >= b.e THEN b ELSE a
             d == hi.e - lo.e
         IN IF d > Precision + 2 THEN hi
            ELSE LET M == hi.m * 2^d + lo.m
                 IN FRound(Sgn(M), Abs(M), FALSE, lo.e)

\* a - b
FSub(a, b) == FAdd(a, FNeg(b))

\* a * b
FMul(a, b) == FRound(Sgn(a.m) * Sgn(b.m), Abs(a.m) * Abs(b.m), FALSE, a.e + b.e)

\* a / b for b # 0
FDiv(a, b) ==
    LET N == Abs(a.m) * 2^(Precision + 2)
    IN FRound(Sgn(a.m) * Sgn(b.m), N \div Abs(b.m), N % Abs(b.m) # 0,
              a.e - b.e - (Precision + 2))

\* math.sqrt(a) for a >= 0
FSqrt(a) ==
    IF a.m = 0 THEN FZero
    ELSE LET k == IF (a.e - (Precision + 2)) % 2 = 0 THEN Precision + 2 ELSE Precision + 3
             M == a.m * 2^k
             s == ISqrt(M)
         IN FRound(1, s, s * s # M, (a.e - k) \div 2)

\* a < b, a > b
FLess(a, b) == FSub(a, b).m < 0
FGreater(a, b) == FSub(a, b).m > 0

\* min(a, b), max(a, b): the first argument unless the other is smaller/larger
FMin(a, b) == IF FLess(b, a) THEN b ELSE a
FMax(a, b) == IF FGreater(b, a) THEN b ELSE a

\* the decimal literal num/den, for integers of at most Precision bits
FDec(num, den) == FDiv(FromInt(num), FromInt(den))

\* the literal 1e-6 (1000000 has more than Precision bits)
F_1EM6 == [m |-> 4295, e |-> -32]

---------------------------------------------------------------------------
(* random.Random(seed): the generator is kept as a stream that abs(seed)   *)
(* determines (int seeds are seeded by their absolute value); the stream   *)
(* itself is a 6-bit congruential one, not the build's Mersenne Twister.   *)

RngSeed(seed) == Abs(seed) % 64
RngNext(x) == (21 * x + 7) % 64

\* the state after k calls of random()
RECURSIVE RngState(_, _)
RngState(seed, k) == IF k = 0 THEN RngSeed(seed) ELSE RngNext(RngState(seed, k - 1))

\* the k-th value of rng.random(), k = 1, 2, ...: a float in [0, 1)
RngRandom(seed, k) == FDiv(FromInt(RngState(seed, k)), FromInt(64))

\* the k-th value of rng.uniform(a, b): a + (b - a) * random()
RngUniform(seed, k, a, b) == FAdd(a, FMul(FSub(b, a), RngRandom(seed, k)))

---------------------------------------------------------------------------
(* topology/layout.py: compute_layout *)

NodePosition(mac, name, x, y) == [mac |-> mac, name |-> name, x |-> x, y |-> y]

F_EPS == F_1EM6
F_ONE == FromInt(1)

\* dist_lookup[tuple(sorted([ap1_mac, ap2_mac]))] = distance_ft: the dict as
\* the list of its items [a, b, d] in insertion order
DistPut(lookup, link) ==
    LET a == IF link.ap1_mac <= link.ap2_mac THEN link.ap1_mac ELSE link.ap2_mac
        b == IF link.ap1_mac <= link.ap2_mac THEN link.ap2_mac ELSE link.ap1_mac
        d == FromInt(link.distance_ft)
    IN IF \E k \in 1..Len(lookup) : lookup[k].a = a /\ lookup[k].b = b
       THEN [k \in 1..Len(lookup) |->
                IF lookup[k].a = a /\ lookup[k].b = b THEN [lookup[k] EXCEPT !.d = d]
                ELSE lookup[k]]
       ELSE Append(lookup, [a |-> a, b |-> b, d |-> d])

RECURSIVE DistLookup(_)
DistLookup(links) ==
    IF links = <<>> THEN <<>>
    ELSE DistPut(DistLookup(SubSeq(links, 1, Len(links) - 1)), links[Len(links)])

\* max(dist_lookup.values()) of a non-empty dict
RECURSIVE MaxValue(_)
MaxValue(lookup) ==
    IF Len(lookup) = 1 THEN lookup[1].d
    ELSE FMax(MaxValue(SubSeq(lookup, 1, Len(lookup) - 1)), lookup[Len(lookup)].d)

\* max_dist with its guard against a zero scale
MaxDist(lookup) ==
    LET max_dist == MaxValue(lookup) IN IF FLess(max_dist, F_EPS) THEN F_ONE ELSE max_dist

\* the search loop for a link's two indices (0-based, -1 when not found)
IdxA(placements, mac_a) ==
    LET hits == {k \in 1..Len(placements) : placements[k].mac = mac_a}
    IN IF hits = {} THEN -1 ELSE (CHOOSE k \in hits : \A h \in hits : h <= k) - 1

IdxB(placements, mac_a, mac_b) ==
    LET hits == {k \in 1..Len(placements) :
                    placements[k].mac # mac_a /\ placements[k].mac = mac_b}
    IN IF hits = {} THEN -1 ELSE (CHOOSE k \in hits : \A h \in hits : h <= k) - 1

\* math.sqrt(dx * dx + dy * dy), never below 1e-6
Distance(dx, dy) ==
    LET dist == FSqrt(FAdd(FMul(dx, dx), FMul(dy, dy)))
    IN IF FLess(dist, F_EPS) THEN F_EPS ELSE dist

\* the repulsive force between nodes i and j (0-based) added to disp
Repel(positions, disp, i, j, k) ==
    LET dx == FSub(positions[i + 1][1], positions[j + 1][1])
        dy == FSub(positions[i + 1][2], positions[j + 1][2])
        dist == Distance(dx, dy)
        force == FDiv(FMul(k, k), dist)
        fx == FMul(FDiv(dx, dist), force)
        fy == FMul(FDiv(dy, dist), force)
    IN [disp EXCEPT ![i + 1] = <<FAdd(@[1], fx), FAdd(@[2], fy)>>,
                    ![j + 1] = <<FSub(@[1], fx), FSub(@[2], fy)>>]

\* the pairs (i, j), i < j, in the order of the nested loops
PairsFrom(n) ==
    LET count == (n * (n - 1)) \div 2
        row(i) == (i * (2 * n - i - 1)) \div 2
        first(p) == CHOOSE i \in 0..(n - 2) : row(i) <= p /\ p < row(i + 1)
    IN [p \in 1..count |-> <<first(p - 1), first(p - 1) + 1 + (p - 1 - row(first(p - 1)))>>]

RECURSIVE RepelAll(_, _, _, _)
RepelAll(positions, disp, pairs, k) ==
    IF pairs = <<>> THEN disp
    ELSE RepelAll(positions, Repel(positions, disp, Head(pairs)[1], Head(pairs)[2], k),
                  Tail(pairs), k)

\* the spring force of one dist_lookup item added to disp; an item whose MACs
\* are not both found is skipped
Attract(placements, positions, disp, item, max_dist) ==
    LET idx_a == IdxA(placements, item.a)
        idx_b == IdxB(placements, item.a, item.b)
    IN IF idx_a < 0 \/ idx_b < 0 THEN disp
       ELSE LET dx == FSub(positions[idx_a + 1][1], positions[idx_b + 1][1])
                dy == FSub(positions[idx_a + 1][2], positions[idx_b + 1][2])
                dist == Distance(dx, dy)
                target_norm == FMul(FDiv(item.d, max_dist), FDec(7, 10))
                force == FDiv(FSub(dist, target_norm), FromInt(2))
                fx == FMul(FDiv(dx, dist), force)
                fy == FMul(FDiv(dy, dist), force)
            IN [disp EXCEPT ![idx_a + 1] = <<FSub(@[1], fx), FSub(@[2], fy)>>,
                            ![idx_b + 1] = <<FAdd(@[1], fx), FAdd(@[2], fy)>>]

RECURSIVE AttractAll(_, _, _, _, _)
AttractAll(placements, positions, disp, items, max_dist) ==
    IF items = <<>> THEN disp
    ELSE AttractAll(placements, positions,
                    Attract(placements, positions, disp, Head(items), max_dist),
                    Tail(items), max_dist)

\* the displacement of one node applied to its position, clamped by t
Displace(pos, d, t) ==
    LET mag == FSqrt(FAdd(FMul(d[1], d[1]), FMul(d[2], d[2])))
    IN IF FGreater(mag, F_EPS)
       THEN LET scale == FDiv(FMin(mag, t), mag)
            IN <<FAdd(pos[1], FMul(d[1], scale)), FAdd(pos[2], FMul(d[2], scale))>>
       ELSE pos

\* t *= 1.0 - (iteration + 1) / (iterations + 1), never below 1e-6
CoolDown(t, iteration, iterations) ==
    LET cooled == FMul(t, FSub(F_ONE, FDiv(FromInt(iteration + 1), FromInt(iterations + 1))))
    IN IF FLess(cooled, F_EPS) THEN F_EPS ELSE cooled

\* min(xs), max(xs) of a non-empty list of floats
RECURSIVE FMinOf(_)
FMinOf(xs) ==
    IF Len(xs) = 1 THEN xs[1] ELSE FMin(FMinOf(SubSeq(xs, 1, Len(xs) - 1)), xs[Len(xs)])

RECURSIVE FMaxOf(_)
FMaxOf(xs) ==
    IF Len(xs) = 1 THEN xs[1] ELSE FMax(FMaxOf(SubSeq(xs, 1, Len(xs) - 1)), xs[Len(xs)])

\* max - min if it exceeds 1e-6, else 1.0
RangeOf(lo, hi) == IF FGreater(FSub(hi, lo), F_EPS) THEN FSub(hi, lo) ELSE F_ONE

\* 0.05 + v * 0.9
WithMargin(v) == FAdd(FDec(5, 100), FMul(v, FDec(9, 10)))

\* the normalisation of the final positions into result_positions
Normalize(placements, positions) ==
    LET xs == [i \in 1..Len(positions) |-> positions[i][1]]
        ys == [i \in 1..Len(positions) |-> positions[i][2]]
        min_x == FMinOf(xs)
        min_y == FMinOf(ys)
        range_x == RangeOf(min_x, FMaxOf(xs))
        range_y == RangeOf(min_y, FMaxOf(ys))
    IN [i \in 1..Len(placements) |->
           NodePosition(placements[i].mac, placements[i].name,
                        WithMargin(FDiv(FSub(positions[i][1], min_x), range_x)),
                        WithMargin(FDiv(FSub(positions[i][2], min_y), range_y)))]

\* the edge cases with the pair of n = 2 laid out vertically
EdgeCaseVertical(placements) ==
    IF Len(placements) = 0 THEN <<>>
    ELSE IF Len(placements) = 1
    THEN <<NodePosition(placements[1].mac, placements[1].name, FDec(5, 10), FDec(5, 10))>>
    ELSE <<NodePosition(placements[1].mac, placements[1].name, FDec(5, 10), FDec(2, 10)),
           NodePosition(placements[2].mac, placements[2].name, FDec(5, 10), FDec(8, 10))>>

\* the fixed results of the edge cases n = 0, 1, 2
EdgeCase(placements) ==
    IF Len(placements) = 0 THEN <<>>
    ELSE IF Len(placements) = 1
    THEN <<NodePosition(placements[1].mac, placements[1].name, FDec(5, 10), FDec(5, 10))>>
    ELSE <<NodePosition(placements[1].mac, placements[1].name, FDec(2, 10), FDec(5, 10)),
           NodePosition(placements[2].mac, placements[2].name, FDec(8, 10), FDec(5, 10))>>

\* the start positions drawn from one generator shared by all calls: a later
\* call goes on where the call before it stopped
InitialPositionsSharedRng(n, seed) ==
    [i \in 1..n |-> <<RngUniform(seed, 2 * n * l_calls + 2 * i - 1, FDec(1, 10), FDec(9, 10)),
                      RngUniform(seed, 2 * n * l_calls + 2 * i, FDec(1, 10), FDec(9, 10))>>]

\* positions = [[rng.uniform(0.1, 0.9), rng.uniform(0.1, 0.9)] for _ in range(n)]
InitialPositions(n, seed) ==
    [i \in 1..n |-> <<RngUniform(seed, 2 * i - 1, FDec(1, 10), FDec(9, 10)),
                      RngUniform(seed, 2 * i, FDec(1, 10), FDec(9, 10))>>]

\* no call of compute_layout is running
LayoutIdleFrame == [pc |-> "idle", positions |-> <<>>, t |-> FZero, iteration |-> 0, result |-> <<>>]

\* a call at its entry
LayoutCalled == [pc |-> "call", positions |-> <<>>, t |-> FZero, iteration |-> 0, result |-> <<>>]

\* lines 33-64: the edge cases return, the others draw their start positions
LayoutEnter(in) ==
    LET n == Len(in.topology.placements) IN
    IF n <= 2
    THEN [pc |-> "done", positions |-> <<>>, t |-> FZero, iteration |-> 0,
          result |-> EdgeCase(in.topology.placements)]
    ELSE [pc |-> "iterate", positions |-> InitialPositions(n, in.seed), t |-> FDec(1, 10),
          iteration |-> 0, result |-> <<>>]

\* one iteration of the simulation loop
LayoutIteration(in, f) ==
    LET placements == in.topology.placements
        n == Len(placements)
        k == FSqrt(FDiv(F_ONE, FromInt(n)))
        dist_lookup == DistLookup(in.topology.links)
        zero == [i \in 1..n |-> <<FZero, FZero>>]
        repelled == RepelAll(f.positions, zero, PairsFrom(n), k)
        disp == IF dist_lookup # <<>>
                THEN AttractAll(placements, f.positions, repelled, dist_lookup,
                                MaxDist(dist_lookup))
                ELSE repelled
    IN [f EXCEPT !.positions = [i \in 1..n |-> Displace(f.positions[i], disp[i], f.t)],
                 !.t = CoolDown(f.t, f.iteration, in.iterations),
                 !.iteration = @ + 1]

\* lines 141-158: normalise and return
LayoutFinish(in, f) ==
    [f EXCEPT !.pc = "done", !.result = Normalize(in.topology.placements, f.positions)]

\* the next frame of a running call
LayoutStep(in, f) ==
    IF f.pc = "call" THEN LayoutEnter(in)
    ELSE IF f.iteration < in.iterations THEN LayoutIteration(in, f)
    ELSE LayoutFinish(in, f)

RECURSIVE LayoutRun(_, _)
LayoutRun(in, f) == IF f.pc = "done" THEN f.result ELSE LayoutRun(in, LayoutStep(in, f))

\* compute_layout(topology, iterations=..., seed=...).positions
compute_layout(topology_, iterations, seed) ==
    LayoutRun([topology |-> topology_, iterations |-> iterations, seed |-> seed], LayoutCalled)

LayoutInIdle == [topology |-> EmptyTopology, iterations |-> 0, seed |-> 0]
LayoutIdle == l_in = LayoutInIdle /\ lay = LayoutIdleFrame /\ l_calls = 0 /\ l_prev = <<>>

---------------------------------------------------------------------------
(* topology/renderer.py: AsciiCanvas and render_topology_map. A str is     *)
(* the sequence of its characters; the column x and the row y of the code  *)
(* are the indices x + 1 and y + 1 here.                                   *)

FLOOR_STYLES(floor) ==
    CASE floor = "ground" -> "green"
      [] floor = "upper" -> "cyan"
      [] floor = "basement" -> "yellow"
      [] floor = "detached" -> "magenta"
      [] OTHER -> "white"

BARRIER_CHARS(barrier) ==
    CASE barrier = "open_air" -> "-"
      [] barrier = "wall" -> "="
      [] barrier = "floor_ceiling" -> "#"
      [] barrier = "outdoor" -> "."
      [] OTHER -> "-"

GridCell(char, style) == [char |-> char, style |-> style]

\* GridCell()
BlankCell == GridCell(" ", "")

\* AsciiCanvas(width, height) after __post_init__; raised is the exception
\* a write into the grid has raised, "none" while there is none
AsciiCanvas(width, height) ==
    [width |-> width, height |-> height,
     grid |-> [y \in 1..height |-> [x \in 1..width |-> BlankCell]],
     raised |-> "none"]

\* self.grid[y][x] = cell as Python lists do it: a negative index counts
\* from the end, an index outside the list raises IndexError
GridSetItem(canvas, x, y, cell) ==
    LET h == Len(canvas.grid)
        row == IF y >= 0 THEN y + 1 ELSE h + y + 1
    IN IF canvas.raised # "none" THEN canvas
       ELSE IF row < 1 \/ row > h THEN [canvas EXCEPT !.raised = "IndexError"]
       ELSE LET w == Len(canvas.grid[row])
                col == IF x >= 0 THEN x + 1 ELSE w + x + 1
            IN IF col < 1 \/ col > w THEN [canvas EXCEPT !.raised = "IndexError"]
               ELSE [canvas EXCEPT !.grid[row][col] = cell]

\* put_char without the test of its coordinates
put_char_unguarded(canvas, x, y, char, style) == GridSetItem(canvas, x, y, GridCell(char, style))

put_char(canvas, x, y, char, style) ==
    IF 0 <= x /\ x < canvas.width /\ 0 <= y /\ y < canvas.height
    THEN GridSetItem(canvas, x, y, GridCell(char, style))
    ELSE canvas

RECURSIVE put_text(_, _, _, _, _)
put_text(canvas, x, y, text, style) ==
    IF text = <<>> THEN canvas
    ELSE put_text(put_char(canvas, x, y, Head(text), style), x + 1, y, Tail(text), style)

get_char(canvas, x, y) ==
    IF 0 <= x /\ x < canvas.width /\ 0 <= y /\ y < canvas.height
    THEN canvas.grid[y + 1][x + 1].char
    ELSE " "

\* the loop of draw_line at the point (x0, y0)
RECURSIVE DrawLineLoop(_, _, _, _, _, _, _, _, _, _, _, _)
DrawLineLoop(canvas, x0, y0, x1, y1, dx, dy, sx, sy, err, char, style) ==
    LET drawn == IF get_char(canvas, x0, y0) \notin {"@", "[", "]"}
                 THEN put_char(canvas, x0, y0, char, style)
                 ELSE canvas
        e2 == 2 * err
        stepx == e2 > -dy
        err1 == IF stepx THEN err - dy ELSE err
        stepy == e2 < dx
    IN IF x0 = x1 /\ y0 = y1 THEN drawn
       ELSE DrawLineLoop(drawn, IF stepx THEN x0 + sx ELSE x0, IF stepy THEN y0 + sy ELSE y0,
                         x1, y1, dx, dy, sx, sy, IF stepy THEN err1 + dx ELSE err1, char, style)

draw_line(canvas, x0, y0, x1, y1, char, style) ==
    LET dx == Abs(x1 - x0)
        dy == Abs(y1 - y0)
    IN DrawLineLoop(canvas, x0, y0, x1, y1, dx, dy, IF x0 < x1 THEN 1 ELSE -1,
                    IF y0 < y1 THEN 1 ELSE -1, dx - dy, char, style)

\* to_rich_text: the cells row after row, a newline after every row but the last
RECURSIVE RowsText(_, _)
RowsText(grid, row_idx) ==
    IF row_idx > Len(grid) THEN <<>>
    ELSE grid[row_idx] \o (IF row_idx < Len(grid) THEN <<GridCell("\n", "")>> ELSE <<>>)
         \o RowsText(grid, row_idx + 1)

to_rich_text(canvas) == RowsText(canvas.grid, 1)

\* Panel(canvas.to_rich_text(), title=..., border_style="cyan")
Panel(canvas) ==
    [renderable |-> to_rich_text(canvas), title |-> "[bold cyan]Topology Map[/bold cyan]",
     border_style |-> "cyan"]

NoPanel == [renderable |-> <<>>, title |-> "", border_style |-> ""]

floor_abbrev(floor) ==
    CASE floor = "ground" -> "G"
      [] floor = "upper" -> "U"
      [] floor = "basement" -> "B"
      [] floor = "detached" -> "D"
      [] OTHER -> "?"

\* max(S) of a non-empty set of integers
SetMax(S) == CHOOSE x \in S : \A y \in S : x >= y

\* str(i) of an int
DigitChars == <<"0", "1", "2", "3", "4", "5", "6", "7", "8", "9">>
RECURSIVE NatStr(_)
NatStr(i) == IF i < 10 THEN <<DigitChars[i + 1]>> ELSE NatStr(i \div 10) \o <<DigitChars[(i % 10) + 1]>>
IntStr(i) == IF i < 0 THEN <<"-">> \o NatStr(-i) ELSE NatStr(i)

\* int(a) of a float: the fraction is dropped
FToInt(a) ==
    IF a.e >= 0 THEN a.m * 2^a.e
    ELSE IF -a.e >= Precision THEN 0
    ELSE Sgn(a.m) * (Abs(a.m) \div 2^(-a.e))

\* text[:k]: a negative k counts from the end
SlicePrefix(text, k) ==
    IF k >= 0 THEN SubSeq(text, 1, SetMin({k, Len(text)}))
    ELSE SubSeq(text, 1, SetMax({Len(text) + k, 0}))

MAX_LABEL_LEN == 15

\* the label as _try_place_label writes it
CutLabel(label, max_label_len) ==
    IF Len(label) > max_label_len
    THEN SlicePrefix(label, max_label_len - 1) \o <<"~">>
    ELSE label

\* candidates: right, left, below, above
LabelCandidates(cx, cy, label_len) ==
    <<[lx |-> cx + 2, ly |-> cy, side |-> "right"],
      [lx |-> cx - label_len - 1, ly |-> cy, side |-> "left"],
      [lx |-> cx - label_len \div 2, ly |-> cy + 1, side |-> "below"],
      [lx |-> cx - label_len \div 2, ly |-> cy - 1, side |-> "above"]>>

\* the candidate is inside the canvas and its cells are clear
CandidateFits(canvas, c, label_len) ==
    /\ ~(c.lx < 0 \/ c.ly < 0 \/ c.lx + label_len > canvas.width \/ c.ly >= canvas.height)
    /\ \A i \in 0..(label_len - 1) : get_char(canvas, c.lx + i, c.ly) = " "

\* the index of the first candidate that fits, 0 when none does
FirstFitting(canvas, candidates, label_len) ==
    IF \E k \in 1..Len(candidates) : CandidateFits(canvas, candidates[k], label_len)
    THEN SetMin({k \in 1..Len(candidates) : CandidateFits(canvas, candidates[k], label_len)})
    ELSE 0

\* where _try_place_label puts the label: a side, or "fallback"
LabelSide(canvas, cx, cy, label, max_label_len) ==
    LET cut == CutLabel(label, max_label_len)
        candidates == LabelCandidates(cx, cy, Len(cut))
        k == FirstFitting(canvas, candidates, Len(cut))
    IN IF k > 0 THEN candidates[k].side ELSE "fallback"

try_place_label(canvas, cx, cy, label, style, max_label_len) ==
    LET cut == CutLabel(label, max_label_len)
        label_len == Len(cut)
        candidates == LabelCandidates(cx, cy, label_len)
        k == FirstFitting(canvas, candidates, label_len)
        lx == cx + 2
        ly == cy
        end == SetMin({lx + label_len, canvas.width})
    IN IF k > 0 THEN put_text(canvas, candidates[k].lx, candidates[k].ly, cut, style)
       ELSE IF 0 <= ly /\ ly < canvas.height
            THEN put_text(canvas, lx, ly, SlicePrefix(cut, end - lx), style)
            ELSE canvas

\* "No APs configured"
NO_APS_TEXT == <<"N", "o", " ", "A", "P", "s", " ", "c", "o", "n", "f", "i", "g", "u", "r", "e", "d">>

\* link_lookup[tuple(sorted([ap1_mac, ap2_mac]))] = (distance_ft, barrier):
\* the dict as the list of its items in insertion order
LinkPut(lookup, link) ==
    LET a == IF link.ap1_mac <= link.ap2_mac THEN link.ap1_mac ELSE link.ap2_mac
        b == IF link.ap1_mac <= link.ap2_mac THEN link.ap2_mac ELSE link.ap1_mac
        item == [a |-> a, b |-> b, d |-> FromInt(link.distance_ft), barrier |-> link.barrier]
    IN IF \E k \in 1..Len(lookup) : lookup[k].a = a /\ lookup[k].b = b
       THEN [k \in 1..Len(lookup) |->
                IF lookup[k].a = a /\ lookup[k].b = b THEN item ELSE lookup[k]]
       ELSE Append(lookup, item)

RECURSIVE LinkLookup(_)
LinkLookup(links) ==
    IF links = <<>> THEN <<>>
    ELSE LinkPut(LinkLookup(SubSeq(links, 1, Len(links) - 1)), links[Len(links)])

\* cx = max(1, min(canvas_width - 2, int(pos.x * (canvas_width - 1))))
CanvasCoord(v, size) == SetMax({1, SetMin({size - 2, FToInt(FMul(v, FromInt(size - 1)))})})

\* node_coords: the MACs of the positions, and the coordinates of the last
\* position with the MAC
NodeMacs(positions) == {positions[i].mac : i \in 1..Len(positions)}
NodeCoords(positions, mac, canvas_width, canvas_height) ==
    LET i == SetMax({j \in 1..Len(positions) : positions[j].mac = mac})
    IN [cx |-> CanvasCoord(positions[i].x, canvas_width),
        cy |-> CanvasCoord(positions[i].y, canvas_height)]

\* placement_lookup.get(pos.mac).floor, FloorLevel.GROUND without a placement
FloorOfMac(placements, mac) ==
    IF \E j \in 1..Len(placements) : placements[j].mac = mac
    THEN placements[SetMax({j \in 1..Len(placements) : placements[j].mac = mac})].floor
    ELSE "ground"

\* the label of a node: name, floor tag and, if counted, its clients
NodeLabel(pos, floor, client_counts) ==
    pos.name \o <<"[", floor_abbrev(floor), "]">>
    \o (IF \E c \in client_counts : c.mac = pos.mac
        THEN <<" ", "(">> \o IntStr((CHOOSE c \in client_counts : c.mac = pos.mac).count) \o <<")">>
        ELSE <<>>)

\* lines 188-201: the line of one link and the distance at its midpoint
DrawLink(in, canvas, item) ==
    LET positions == in.layout
    IN IF item.a \in NodeMacs(positions) /\ item.b \in NodeMacs(positions)
       THEN LET p0 == NodeCoords(positions, item.a, in.canvas_width, in.canvas_height)
                p1 == NodeCoords(positions, item.b, in.canvas_width, in.canvas_height)
                lined == draw_line(canvas, p0.cx, p0.cy, p1.cx, p1.cy, BARRIER_CHARS(item.barrier), "dim")
                mid_x == (p0.cx + p1.cx) \div 2
                mid_y == (p0.cy + p1.cy) \div 2
                dist_label == IntStr(FToInt(item.d)) \o <<"f", "t">>
                label_x == mid_x - Len(dist_label) \div 2
            IN IF /\ 0 <= label_x
                  /\ label_x + Len(dist_label) < in.canvas_width
                  /\ 0 <= mid_y
                  /\ mid_y < in.canvas_height
               THEN put_text(lined, label_x, mid_y, dist_label, "dim italic")
               ELSE lined
       ELSE canvas

\* the marker of a node
MarkNode(in, canvas, pos) ==
    LET p == NodeCoords(in.layout, pos.mac, in.canvas_width, in.canvas_height)
        floor == FloorOfMac(in.topology.placements, pos.mac)
    IN put_char(canvas, p.cx, p.cy, "@", "bold " \o FLOOR_STYLES(floor))

\* lines 204-219: the marker and the label of one node
DrawNode(in, canvas, pos) ==
    LET p == NodeCoords(in.layout, pos.mac, in.canvas_width, in.canvas_height)
        floor == FloorOfMac(in.topology.placements, pos.mac)
    IN try_place_label(MarkNode(in, canvas, pos), p.cx, p.cy,
                       NodeLabel(pos, floor, in.client_counts), FLOOR_STYLES(floor), MAX_LABEL_LEN)

\* the frame of a render_topology_map call: k and i are the next link and
\* the next node to draw, sides the places the labels were put at
RenderCalled == [pc |-> "call", canvas |-> AsciiCanvas(0, 0), link_lookup |-> <<>>, k |-> 1, i |-> 1, sides |-> <<>>, panel |-> NoPanel]

\* no call of render_topology_map is running
RenderIdleFrame == [RenderCalled EXCEPT !.pc = "idle"]

\* lines 161-174: the canvas; the panel of an empty layout, or the lookups
RenderEnter(in) ==
    LET canvas == AsciiCanvas(in.canvas_width, in.canvas_height)
    IN IF in.layout = <<>>
       THEN LET written == put_text(canvas, in.canvas_width \div 2 - 8, in.canvas_height \div 2, NO_APS_TEXT, "dim")
            IN [RenderCalled EXCEPT !.pc = IF written.raised = "none" THEN "done" ELSE "raised",
                                    !.canvas = written,
                                    !.panel = IF written.raised = "none" THEN Panel(written) ELSE NoPanel]
       ELSE [RenderCalled EXCEPT !.pc = "draw", !.canvas = canvas,
                                 !.link_lookup = LinkLookup(in.topology.links)]

\* one turn of the loop over link_lookup
RenderLinkTurn(in, f) ==
    LET drawn == DrawLink(in, f.canvas, f.link_lookup[f.k])
    IN [f EXCEPT !.canvas = drawn, !.k = @ + 1,
                 !.pc = IF drawn.raised = "none" THEN "draw" ELSE "raised"]

\* one turn of the loop over layout.positions
RenderNodeTurn(in, f) ==
    LET pos == in.layout[f.i]
        p == NodeCoords(in.layout, pos.mac, in.canvas_width, in.canvas_height)
        floor == FloorOfMac(in.topology.placements, pos.mac)
        drawn == DrawNode(in, f.canvas, pos)
    IN [f EXCEPT !.canvas = drawn, !.i = @ + 1,
                 !.sides = Append(@, LabelSide(MarkNode(in, f.canvas, pos), p.cx, p.cy,
                                               NodeLabel(pos, floor, in.client_counts), MAX_LABEL_LEN)),
                 !.pc = IF drawn.raised = "none" THEN "draw" ELSE "raised"]

\* line 221: return Panel(...)
RenderFinish(f) == [f EXCEPT !.pc = "done", !.panel = Panel(f.canvas)]

\* the next frame of a running call
RenderStep(in, f) ==
    IF f.pc = "call" THEN RenderEnter(in)
    ELSE IF f.k <= Len(f.link_lookup) THEN RenderLinkTurn(in, f)
    ELSE IF f.i <= Len(in.layout) THEN RenderNodeTurn(in, f)
    ELSE RenderFinish(f)

RenderInIdle == [topology |-> EmptyTopology, layout |-> <<>>, canvas_width |-> 0, canvas_height |-> 0, client_counts |-> {}]
PutIdle == [count |-> 0, x |-> 0, y |-> 0, char |-> " "]
RenderIdle == rn_in = RenderInIdle /\ rn = RenderIdleFrame /\ rn_put = PutIdle

---------------------------------------------------------------------------
(* topology/renderer.py: AsciiCanvas.draw_line, one pass of its loop per   *)
(* step. visited lists the points the loop has stood on.                   *)

NODE_MARKERS == {"@", "[", "]"}

LineCalled == [pc |-> "call", canvas |-> AsciiCanvas(0, 0), x0 |-> 0, y0 |-> 0, dx |-> 0, dy |-> 0, sx |-> 0, sy |-> 0, err |-> 0, visited |-> <<>>]

\* no call of draw_line is running
LineIdleFrame == [LineCalled EXCEPT !.pc = "idle"]

\* lines 68-72: the spans, the directions and the error term
DrawLineEnter(in) ==
    LET dx == Abs(in.x1 - in.x0)
        dy == Abs(in.y1 - in.y0)
    IN [pc |-> "loop", canvas |-> in.canvas, x0 |-> in.x0, y0 |-> in.y0, dx |-> dx, dy |-> dy,
        sx |-> IF in.x0 < in.x1 THEN 1 ELSE -1,
        sy |-> IF in.y0 < in.y1 THEN 1 ELSE -1,
        err |-> dx - dy, visited |-> <<>>]

\* one pass of the loop that writes over node markers too
DrawLineIterOverwrite(in, f) ==
    LET drawn == put_char(f.canvas, f.x0, f.y0, in.char, in.style)
        seen == Append(f.visited, <<f.x0, f.y0>>)
        e2 == 2 * f.err
        stepx == e2 > -f.dy
        err1 == IF stepx THEN f.err - f.dy ELSE f.err
        stepy == e2 < f.dx
    IN IF f.x0 = in.x1 /\ f.y0 = in.y1
       THEN [f EXCEPT !.pc = "done", !.canvas = drawn, !.visited = seen]
       ELSE [f EXCEPT !.canvas = drawn, !.visited = seen,
                      !.x0 = IF stepx THEN f.x0 + f.sx ELSE f.x0,
                      !.y0 = IF stepy THEN f.y0 + f.sy ELSE f.y0,
                      !.err = IF stepy THEN err1 + f.dx ELSE err1]

\* lines 74-87: one pass of `while True`
DrawLineIter(in, f) ==
    LET drawn == IF get_char(f.canvas, f.x0, f.y0) \notin NODE_MARKERS
                 THEN put_char(f.canvas, f.x0, f.y0, in.char, in.style)
                 ELSE f.canvas
        seen == Append(f.visited, <<f.x0, f.y0>>)
        e2 == 2 * f.err
        stepx == e2 > -f.dy
        err1 == IF stepx THEN f.err - f.dy ELSE f.err
        stepy == e2 < f.dx
    IN IF f.x0 = in.x1 /\ f.y0 = in.y1
       THEN [f EXCEPT !.pc = "done", !.canvas = drawn, !.visited = seen]
       ELSE [f EXCEPT !.canvas = drawn, !.visited = seen,
                      !.x0 = IF stepx THEN f.x0 + f.sx ELSE f.x0,
                      !.y0 = IF stepy THEN f.y0 + f.sy ELSE f.y0,
                      !.err = IF stepy THEN err1 + f.dx ELSE err1]

LineInIdle == [canvas |-> AsciiCanvas(0, 0), x0 |-> 0, y0 |-> 0, x1 |-> 0, y1 |-> 0, char |-> "-", style |-> ""]
LineIdle == ln_in = LineInIdle /\ ln = LineIdleFrame

---------------------------------------------------------------------------
(* api/client.py: UniFiClient.fetch_all under asyncio. gather makes one    *)
(* task per fetch; the event loop gives every new task its first turn, in  *)
(* the order of creation, before it looks for finished requests, and then  *)
(* resumes the tasks in the order their requests finish.                   *)

\* the fetches in the order fetch_all hands them to asyncio.gather, and the
\* model class each builds its items with
FETCHES == <<"get_devices", "get_clients", "get_rogue_aps", "get_wlan_configs", "get_site_settings", "get_health", "get_events">>
FETCH_MODELS == <<"DeviceInfo", "ClientInfo", "RogueAP", "WLANConfig", "SiteSetting", "HealthSubsystem", "Event">>

\* what the controller does with a GET: a data array, a 404, another error,
\* or a data array whose items the model class does not accept
Responses == {"data", "not_found", "error", "malformed"}

\* a task of the event loop: pending (created), inflight (awaiting its
\* request), done (returned result), raised, cancelled
Task(state, result) == [state |-> state, result |-> result]
NoTasks == [k \in 1..Len(FETCHES) |-> Task("none", <<>>)]

\* _get: the data array, or [] on a 404 and on every exception
GetData(response) == IF response \in {"data", "malformed"} THEN <<response>> ELSE <<>>

\* [Model(**d) for d in data] of fetch k: the items, or the exception of an
\* item that cannot be built
FetchOutcome(k, response) ==
    LET data == GetData(response)
    IN IF \E j \in 1..Len(data) : data[j] = "malformed"
       THEN Task("raised", <<>>)
       ELSE Task("done", [j \in 1..Len(data) |-> [cls |-> FETCH_MODELS[k]]])

\* asyncio.gather(...) made its tasks
GatherCreate == [k \in 1..Len(FETCHES) |-> Task("pending", <<>>)]

\* the task the event loop runs next for the first time
NextPending(tasks) == SetMin({k \in 1..Len(tasks) : tasks[k].state = "pending"})

\* gather resumes its awaiter with the results as soon as one task is done
GatherReadyFirstCompleted(tasks) == \E k \in 1..Len(tasks) : tasks[k].state = "done"

\* gather resumes its awaiter with the results when every task is done
GatherReady(tasks) == \A k \in 1..Len(tasks) : tasks[k].state = "done"

\* gather resumes its awaiter with the first exception a task raised
GatherFailed(tasks) == \E k \in 1..Len(tasks) : tasks[k].state = "raised"

\* the results of gather: in the order of its arguments
GatherResults(tasks) == [k \in 1..Len(tasks) |-> tasks[k].result]

\* NetworkSnapshot(devices=devices, clients=clients, ...)
NetworkSnapshot(results) ==
    [devices |-> results[1], clients |-> results[2], rogue_aps |-> results[3],
     wlan_configs |-> results[4], settings |-> results[5], health |-> results[6],
     events |-> results[7]]

NoSnapshot == [none |-> TRUE]

FetchIdle == f_pc = "idle" /\ f_tasks = NoTasks /\ f_snapshot = NoSnapshot /\ f_handed = NoSnapshot

---------------------------------------------------------------------------
(* cli.py: the apply-plan command. _apply analyses a snapshot, lists the    *)
(* plan rows to change, asks for confirmation, logs in again and sends one  *)
(* devmgr command per change. sent lists the commands posted, applied what  *)
(* send_device_command returned for each.                                   *)

\* lines 279-282; str() of an int is its decimal text
needs_change(plan) ==
    \/ IntStr(plan.current_channel) # IntStr(plan.recommended_channel)
    \/ plan.current_width # plan.recommended_width

\* needs_change looking at the channel alone
needs_change_channel_only(plan) ==
    IntStr(plan.current_channel) # IntStr(plan.recommended_channel)

\* lines 284-292: the entry of changes for a plan row
Change(plan) ==
    [ap_mac |-> plan.ap_mac, band |-> plan.band,
     channel |-> plan.recommended_channel, width |-> plan.recommended_width]

\* lines 277-292
Changes(channel_plan) ==
    LET rows == SelectSeq(channel_plan, needs_change)
    IN [k \in 1..Len(rows) |-> Change(rows[k])]

\* the body send_device_command posts to the devmgr endpoint for a change:
\* {"cmd": cmd, "mac": mac} updated with the radio_table payload
send_device_command(ch) ==
    [cmd |-> "set-radiotable", mac |-> ch.ap_mac,
     radio_table |-> <<[radio |-> IF ch.band = "2g" THEN "ng" ELSE "na",
                        channel |-> ch.channel, ht |-> ch.width]>>]

ApplyCalled == [pc |-> "call", plan |-> <<>>, changes |-> <<>>, listed |-> FALSE, confirmed |-> FALSE, k |-> 1, sent |-> <<>>, applied |-> <<>>]

\* no apply-plan command is running
ApplyIdleFrame == [ApplyCalled EXCEPT !.pc = "idle"]

\* lines 270-296: the analysis of the fetched snapshot and the changes; an
\* exception of rf.analyze ends the command
ApplyAnalyzeTurn(in, f) ==
    LET out == analyze([devices |-> in.devices, rogue_aps |-> <<>>, events |-> <<>>],
                       EmptyTopology)
    IN IF out.raised THEN [f EXCEPT !.pc = "raised"]
       ELSE IF out.plan = <<>> THEN [f EXCEPT !.pc = "done"]
       ELSE IF Changes(out.plan) = <<>> THEN [f EXCEPT !.pc = "done", !.plan = out.plan]
       ELSE [f EXCEPT !.pc = "list", !.plan = out.plan, !.changes = Changes(out.plan)]

\* lines 298-307: the changes are printed; a dry run ends here
ApplyListTurn(in, f) ==
    [f EXCEPT !.listed = TRUE, !.pc = IF in.dry_run THEN "done" ELSE "confirm"]

\* the prompt taking any answer for a yes
ApplyConfirmTurnAnyAnswer(in, f) == [f EXCEPT !.confirmed = TRUE, !.pc = "login"]

\* lines 309-312: Prompt.ask and the test of its answer
ApplyConfirmTurn(in, f) ==
    IF in.answer # "yes" THEN [f EXCEPT !.pc = "done"]
    ELSE [f EXCEPT !.confirmed = TRUE, !.pc = "login"]

\* line 314: async with client logs in again; a failed login raises SystemExit
ApplyLoginTurn(in, f) ==
    IF in.login_ok THEN [f EXCEPT !.pc = "send"] ELSE [f EXCEPT !.pc = "exit"]

\* lines 315-337: one turn of `for ch in changes`; success is what
\* send_device_command returned (false too when the post failed)
ApplySendTurn(f, success) ==
    [f EXCEPT !.sent = Append(@, send_device_command(f.changes[f.k])),
              !.applied = Append(@, success),
              !.k = @ + 1]

\* line 339: the loop is over
ApplyFinishTurn(f) == [f EXCEPT !.pc = "done"]

ApplyInIdle == [devices |-> <<>>, dry_run |-> FALSE, answer |-> "no", login_ok |-> FALSE]
ApplyIdle == apl_in = ApplyInIdle /\ apl = ApplyIdleFrame

---------------------------------------------------------------------------
(* Bounds and input sets *)

MaxNumAPs == 25
OverlapWidths == {0, 20, 40, 60, 80, 160}
OverlapChannels == ALL_5G_CHANNELS \cup {0, 38, 169}
NeighborUniverse == {36, 40, 52, 149, 153}
NeighborSets == (SUBSET NeighborUniverse) \cup {ToSet(FALLBACK_5G), ALL_5G_CHANNELS}

OvIdle == [ch1 |-> 0, ch2 |-> 0, width1 |-> 0, width2 |-> 0]
OvNone == [raised |-> FALSE, value |-> FALSE]
RecInIdle == [num_aps |-> 0, has_radar_events |-> FALSE, neighbor_channels |-> {}]

---------------------------------------------------------------------------
(* Calls of channels_overlap_5g *)

OverlapInit ==
    /\ ov_in \in [ch1 : OverlapChannels, ch2 : OverlapChannels,
                  width1 : OverlapWidths, width2 : OverlapWidths]
    /\ ov_pc = "call"
    /\ ov_out = OvNone
    /\ r_in = RecInIdle
    /\ rec = RecIdle
    /\ snapshot = EmptySnapshot
    /\ topology = EmptyTopology
    /\ a_calls = 0
    /\ a_out = NoOutcome
    /\ Rec24Idle
    /\ LayoutIdle
    /\ RenderIdle
    /\ FetchIdle
    /\ LineIdle
    /\ ApplyIdle

OverlapCall ==
    /\ ov_pc = "call"
    /\ ov_out' = channels_overlap_5g(ov_in.ch1, ov_in.ch2, ov_in.width1, ov_in.width2)
    /\ ov_pc' = "done"
    /\ UNCHANGED <<ov_in, recVars, anVars, rec24Vars, layVars, renVars, fetchVars, lineVars, applyVars>>

OverlapNext == OverlapCall

SpecOverlap == OverlapInit /\ [][OverlapNext]_vars

---------------------------------------------------------------------------
(* Calls of get_recommended_5g_channels, one loop iteration per step *)

RecInit ==
    /\ r_in \in [num_aps : 0..MaxNumAPs, has_radar_events : BOOLEAN,
                 neighbor_channels : NeighborSets]
    /\ rec = RecStart
    /\ ov_in = OvIdle
    /\ ov_pc = "idle"
    /\ ov_out = OvNone
    /\ snapshot = EmptySnapshot
    /\ topology = EmptyTopology
    /\ a_calls = 0
    /\ a_out = NoOutcome
    /\ Rec24Idle
    /\ LayoutIdle
    /\ RenderIdle
    /\ FetchIdle
    /\ LineIdle
    /\ ApplyIdle

RecCandidates == Candidates(r_in.has_radar_events, r_in.neighbor_channels)

RecGreedy ==
    /\ rec.pc = "greedy"
    /\ rec' = GreedyIter(rec, r_in.num_aps, RecCandidates)
    /\ UNCHANGED <<r_in, ovVars, anVars, rec24Vars, layVars, renVars, fetchVars, lineVars, applyVars>>

RecFill ==
    /\ rec.pc = "fill"
    /\ rec' = FillIter(rec, r_in.num_aps, RecCandidates)
    /\ UNCHANGED <<r_in, ovVars, anVars, rec24Vars, layVars, renVars, fetchVars, lineVars, applyVars>>

RecReturn ==
    /\ rec.pc = "return"
    /\ rec' = ReturnSelected(rec, r_in.num_aps)
    /\ UNCHANGED <<r_in, ovVars, anVars, rec24Vars, layVars, renVars, fetchVars, lineVars, applyVars>>

RecNext == RecGreedy \/ RecFill \/ RecReturn

SpecRec5g == RecInit /\ [][RecNext]_vars


---------------------------------------------------------------------------
(* Calls of get_recommended_24g_channels, one loop iteration per step *)

Rec24Init ==
    /\ g_in \in 0..MaxNumAPs
    /\ g24 = Rec24Start
    /\ ov_in = OvIdle
    /\ ov_pc = "idle"
    /\ ov_out = OvNone
    /\ r_in = RecInIdle
    /\ rec = RecIdle
    /\ snapshot = EmptySnapshot
    /\ topology = EmptyTopology
    /\ a_calls = 0
    /\ a_out = NoOutcome
    /\ LayoutIdle
    /\ RenderIdle
    /\ FetchIdle
    /\ LineIdle
    /\ ApplyIdle

Rec24Loop ==
    /\ g24.pc = "loop"
    /\ g24.i < g_in
    /\ g24' = Rec24Iter(g24)
    /\ UNCHANGED <<g_in, ovVars, recVars, anVars, layVars, renVars, fetchVars, lineVars, applyVars>>

Rec24Return ==
    /\ g24.pc = "loop"
    /\ g24.i >= g_in
    /\ g24' = Rec24Done(g24)
    /\ UNCHANGED <<g_in, ovVars, recVars, anVars, layVars, renVars, fetchVars, lineVars, applyVars>>

Rec24Next == Rec24Loop \/ Rec24Return

SpecRec24g == Rec24Init /\ [][Rec24Next]_vars

---------------------------------------------------------------------------
(* Snapshots and topologies rf.analyze is called on *)

MaxAPs == 3
MaxCalls == 2

\* an AP as tests/conftest.py make_ap builds it: both radios configured, both
\* reporting statistics on the configured channels
StdDevice(ch_2g, ch_5g, ht_5g) ==
    [type |-> "uap",
     radio_table |-> <<RadioTableEntry("ng", IntCh(ch_2g), 20, "medium", 0, 0, -100),
                       RadioTableEntry("na", IntCh(ch_5g), ht_5g, "medium", 0, 0, -100)>>,
     radio_table_stats |-> <<RadioTableStatsEntry(IntCh(ch_2g), 10, -100),
                             RadioTableStatsEntry(IntCh(ch_5g), 15, -100)>>]

\* an AP whose channels are unknown (0 and "auto") while its configuration
\* entries carry a wide, loud, busy radio
UnknownChannelDevice ==
    [type |-> "uap",
     radio_table |-> <<RadioTableEntry("ng", IntCh(0), 40, "high", 20, 80, -80),
                       RadioTableEntry("na", StrCh("auto"), 80, "auto", 0, 51, -85)>>,
     radio_table_stats |-> <<>>]

\* an AP that reports no radio at all
NoRadioDevice == [type |-> "uap", radio_table |-> <<>>, radio_table_stats |-> <<>>]

\* an AP whose channels are texts and whose 5 GHz statistics disagree with
\* its configuration (configured "36", observed 40 at 60% utilization)
StatsWinDevice ==
    [type |-> "uap",
     radio_table |-> <<RadioTableEntry("ra0", StrCh("6"), 20, "custom", 18, 50, -100),
                       RadioTableEntry("rai0", StrCh("36"), 40, "auto", 0, 0, -100)>>,
     radio_table_stats |-> <<RadioTableStatsEntry(IntCh(40), 60, -85)>>]

\* a device that is no AP
SwitchDevice == [type |-> "usw", radio_table |-> <<>>, radio_table_stats |-> <<>>]

DeviceShapes ==
    <<StdDevice(1, 36, 40), StdDevice(6, 40, 40), StdDevice(3, 149, 80),
      StdDevice(11, 44, 0), UnknownChannelDevice, NoRadioDevice, StatsWinDevice,
      SwitchDevice>>

\* the shapes a large site repeats
LargeSiteShapes ==
    <<StdDevice(1, 36, 40), StdDevice(6, 40, 40), StdDevice(3, 149, 80),
      UnknownChannelDevice, NoRadioDevice>>
LargeSiteSizes == {9, 25}

\* the k-th device of a snapshot: device MACs are distinct (MAC k)
WithMac(shape, k) ==
    [mac |-> k, type |-> shape.type, radio_table |-> shape.radio_table,
     radio_table_stats |-> shape.radio_table_stats]

SmallDeviceLists ==
    UNION {{[k \in 1..n |-> WithMac(DeviceShapes[pick[k]], k)] :
              pick \in [1..n -> 1..Len(DeviceShapes)]} : n \in 0..MaxAPs}

LargeDeviceLists ==
    {[k \in 1..n |-> WithMac(LargeSiteShapes[((k - 1) % Len(LargeSiteShapes)) + 1], k)] :
        n \in LargeSiteSizes}

\* rogue_aps as the list of their channels
RogueChoices == {<<>>, <<6, 6, 6, 6, 6, 36, 149, 1>>}

\* event logs; key and msg are lists of characters
RadarEvent == [key |-> <<"E", "V", "T">>, msg |-> <<"R", "a", "d", "a", "r", "!">>]
RadioEvent == [key |-> <<"r", "a", "d", "i", "o">>, msg |-> <<>>]
EventChoices == {<<>>, <<RadioEvent>>, <<RadioEvent, RadarEvent>>}

TopologyChoices ==
    {EmptyTopology,
     [placements |-> <<[mac |-> 1, floor |-> "detached"], [mac |-> 2, floor |-> "ground"],
                       [mac |-> 4, floor |-> "upper"], [mac |-> 5, floor |-> "basement"],
                       [mac |-> 99, floor |-> "detached"]>>,
      links |-> <<[ap1_mac |-> 1, ap2_mac |-> 2, distance_ft |-> 30]>>]}

\* the surroundings of a site: its neighbours, its event log and its topology
Environments ==
    {env \in [rogue_aps : RogueChoices, events : EventChoices, topology : TopologyChoices] :
        \/ env.rogue_aps = <<>> /\ env.events = <<>> /\ env.topology = EmptyTopology
        \/ env.rogue_aps # <<>> /\ env.events = <<RadioEvent>> /\ env.topology = EmptyTopology
        \/ env.events = <<RadioEvent, RadarEvent>> /\ env.topology # EmptyTopology}

AnalyzeInit ==
    /\ \E env \in Environments :
          /\ snapshot \in [devices : SmallDeviceLists \cup LargeDeviceLists,
                           rogue_aps : {env.rogue_aps}, events : {env.events}]
          /\ topology = env.topology
    /\ a_calls = 0
    /\ a_out = NoOutcome
    /\ ov_in = OvIdle
    /\ ov_pc = "idle"
    /\ ov_out = OvNone
    /\ r_in = RecInIdle
    /\ rec = RecIdle
    /\ Rec24Idle
    /\ LayoutIdle
    /\ RenderIdle
    /\ FetchIdle
    /\ LineIdle
    /\ ApplyIdle

\* a call that consumes the snapshot it was given: it pops the first device
AnalyzeCallFiltering ==
    /\ a_calls < MaxCalls
    /\ a_out' = analyze(snapshot, topology)
    /\ snapshot' = [snapshot EXCEPT !.devices =
                        IF snapshot.devices = <<>> THEN <<>> ELSE Tail(snapshot.devices)]
    /\ a_calls' = a_calls + 1
    /\ UNCHANGED <<topology, ovVars, recVars, rec24Vars, layVars, renVars, fetchVars, lineVars, applyVars>>

\* findings, plan = rf.analyze(snapshot, topology)
AnalyzeCall ==
    /\ a_calls < MaxCalls
    /\ a_out' = analyze(snapshot, topology)
    /\ a_calls' = a_calls + 1
    /\ UNCHANGED <<snapshot, topology, ovVars, recVars, rec24Vars, layVars, renVars, fetchVars, lineVars, applyVars>>

AnalyzeNext == AnalyzeCall

SpecAnalyze == AnalyzeInit /\ [][AnalyzeNext]_vars

---------------------------------------------------------------------------
(* Calls of compute_layout, one simulation iteration per step *)

MaxPlacements == 4
MaxIterations == 3
MaxLayoutCalls == 1

NodeNames == <<"Office", "Garage", "Attic", "Porch", "Cellar", "Shed">>
PlacementsOf(n) == [k \in 1..n |-> [mac |-> k, name |-> NodeNames[k], floor |-> "ground"]]

Link(ap1_mac, ap2_mac, distance_ft) ==
    [ap1_mac |-> ap1_mac, ap2_mac |-> ap2_mac, distance_ft |-> distance_ft]

\* MAC 99 is the MAC of no placement
LinkLists ==
    {<<>>,
     <<Link(1, 2, 30)>>,
     <<Link(1, 2, 30), Link(1, 99, 1000)>>,
     <<Link(1, 2, 30), Link(99, 1, 10)>>,
     <<Link(1, 99, 10)>>,
     <<Link(2, 1, 30), Link(3, 2, 60), Link(1, 2, 45)>>,
     <<Link(3, 1, 0), Link(1, 1, 5), Link(2, 3, 7)>>}

LayoutTopologies ==
    {[placements |-> PlacementsOf(n), links |-> links] :
        n \in 0..MaxPlacements, links \in LinkLists}

Seeds == {42, -42, 7}

LayoutInit ==
    /\ l_in \in [topology : LayoutTopologies, iterations : 0..MaxIterations, seed : Seeds]
    /\ lay = LayoutCalled
    /\ l_calls = 0
    /\ l_prev = <<>>
    /\ ov_in = OvIdle
    /\ ov_pc = "idle"
    /\ ov_out = OvNone
    /\ r_in = RecInIdle
    /\ rec = RecIdle
    /\ snapshot = EmptySnapshot
    /\ topology = EmptyTopology
    /\ a_calls = 0
    /\ a_out = NoOutcome
    /\ Rec24Idle
    /\ RenderIdle
    /\ FetchIdle
    /\ LineIdle
    /\ ApplyIdle

\* the call is entered: an edge case returns, the others draw their positions
LayoutBegin ==
    /\ lay.pc = "call"
    /\ lay' = LayoutEnter(l_in)
    /\ UNCHANGED <<l_in, l_calls, l_prev, ovVars, recVars, anVars, rec24Vars, renVars, fetchVars, lineVars, applyVars>>

\* for iteration in range(iterations)
LayoutIterate ==
    /\ lay.pc = "iterate"
    /\ lay.iteration < l_in.iterations
    /\ lay' = LayoutIteration(l_in, lay)
    /\ UNCHANGED <<l_in, l_calls, l_prev, ovVars, recVars, anVars, rec24Vars, renVars, fetchVars, lineVars, applyVars>>

\* the loop is over: normalise and return
LayoutReturn ==
    /\ lay.pc = "iterate"
    /\ lay.iteration >= l_in.iterations
    /\ lay' = LayoutFinish(l_in, lay)
    /\ UNCHANGED <<l_in, l_calls, l_prev, ovVars, recVars, anVars, rec24Vars, renVars, fetchVars, lineVars, applyVars>>

\* compute_layout is called again with the same arguments
LayoutAgain ==
    /\ lay.pc = "done"
    /\ l_calls < MaxLayoutCalls
    /\ l_prev' = lay.result
    /\ l_calls' = l_calls + 1
    /\ lay' = LayoutCalled
    /\ UNCHANGED <<l_in, ovVars, recVars, anVars, rec24Vars, renVars, fetchVars, lineVars, applyVars>>

LayoutNext == LayoutBegin \/ LayoutIterate \/ LayoutReturn \/ LayoutAgain

SpecLayout == LayoutInit /\ [][LayoutNext]_vars

---------------------------------------------------------------------------
(* Calls of render_topology_map, one link or one node per step, and calls  *)
(* of put_char on a canvas of its own                                      *)

MaxCanvasWidth == 20
MaxCanvasHeight == 4
MaxPuts == 2

CanvasWidths == {0, 1, 2, 3, 9, MaxCanvasWidth}
CanvasHeights == {0, 1, 3, MaxCanvasHeight}

\* names of 1, 6 and 20 characters
NameA == <<"A">>
NameOffice == <<"O", "f", "f", "i", "c", "e">>
NameLong == <<"D", "e", "t", "a", "c", "h", "e", "d", " ", "G", "a", "r", "a", "g", "e", " ", "L", "o", "f", "t">>

\* layouts: none, the fixed ones of 1 and 2 placements, one that touches both
\* margins and has a MAC without placement, one outside the unit square
\* with a MAC twice
RenderLayouts ==
    {<<>>,
     <<NodePosition(1, NameA, FDec(5, 10), FDec(5, 10))>>,
     <<NodePosition(1, NameOffice, FDec(2, 10), FDec(5, 10)),
       NodePosition(2, NameLong, FDec(8, 10), FDec(5, 10))>>,
     <<NodePosition(1, NameA, FDec(5, 100), FDec(5, 100)),
       NodePosition(2, NameOffice, WithMargin(F_ONE), WithMargin(F_ONE)),
       NodePosition(7, NameA, FDec(5, 10), FDec(5, 10))>>,
     <<NodePosition(1, NameLong, FNeg(FDec(5, 10)), FromInt(3)),
       NodePosition(1, NameA, FDec(5, 10), FDec(5, 10))>>}

MapPlacements ==
    <<[mac |-> 1, name |-> "Office", floor |-> "ground"],
      [mac |-> 2, name |-> "Garage", floor |-> "detached"],
      [mac |-> 3, name |-> "Attic", floor |-> "upper"]>>

MapLink(ap1_mac, ap2_mac, distance_ft, barrier) ==
    [ap1_mac |-> ap1_mac, ap2_mac |-> ap2_mac, distance_ft |-> distance_ft, barrier |-> barrier]

\* MAC 99 is the MAC of no placement and of no position
RenderTopologies ==
    {EmptyTopology,
     [placements |-> MapPlacements, links |-> <<MapLink(1, 2, 30, "wall")>>],
     [placements |-> MapPlacements,
      links |-> <<MapLink(2, 1, 1000, "floor_ceiling"), MapLink(1, 99, 5, "outdoor"),
                  MapLink(1, 1, 7, "open_air")>>],
     [placements |-> MapPlacements,
      links |-> <<MapLink(7, 1, 12, "outdoor"), MapLink(1, 7, 3, "wall")>>]}

\* client_counts as the set of its items; None and {} are the empty set
ClientCounts == {{}, {[mac |-> 1, count |-> 12]}}

\* coordinates put_char is called with: the corners and their neighbours outside
PutXs(width) == {-1, 0, width - 1, width}
PutYs(height) == {-1, 0, height - 1, height}

RenderInit ==
    /\ \/ /\ rn_in \in [topology : RenderTopologies, layout : RenderLayouts,
                        canvas_width : CanvasWidths, canvas_height : CanvasHeights,
                        client_counts : ClientCounts]
          /\ rn = RenderCalled
       \/ /\ rn_in \in [topology : {EmptyTopology}, layout : {<<>>},
                        canvas_width : CanvasWidths, canvas_height : CanvasHeights,
                        client_counts : {{}}]
          /\ rn = [RenderCalled EXCEPT !.pc = "canvas",
                                       !.canvas = AsciiCanvas(rn_in.canvas_width, rn_in.canvas_height)]
    /\ rn_put = PutIdle
    /\ ov_in = OvIdle
    /\ ov_pc = "idle"
    /\ ov_out = OvNone
    /\ r_in = RecInIdle
    /\ rec = RecIdle
    /\ snapshot = EmptySnapshot
    /\ topology = EmptyTopology
    /\ a_calls = 0
    /\ a_out = NoOutcome
    /\ Rec24Idle
    /\ LayoutIdle
    /\ FetchIdle
    /\ LineIdle
    /\ ApplyIdle

\* the call is entered: an empty layout returns its panel
RenderBegin ==
    /\ rn.pc = "call"
    /\ rn' = RenderEnter(rn_in)
    /\ UNCHANGED <<rn_in, rn_put, ovVars, recVars, anVars, rec24Vars, layVars, fetchVars, lineVars, applyVars>>

\* for (mac_a, mac_b), (dist_ft, barrier) in link_lookup.items()
RenderLink ==
    /\ rn.pc = "draw"
    /\ rn.k <= Len(rn.link_lookup)
    /\ rn' = RenderLinkTurn(rn_in, rn)
    /\ UNCHANGED <<rn_in, rn_put, ovVars, recVars, anVars, rec24Vars, layVars, fetchVars, lineVars, applyVars>>

\* for pos in layout.positions
RenderNode ==
    /\ rn.pc = "draw"
    /\ rn.k > Len(rn.link_lookup)
    /\ rn.i <= Len(rn_in.layout)
    /\ rn' = RenderNodeTurn(rn_in, rn)
    /\ UNCHANGED <<rn_in, rn_put, ovVars, recVars, anVars, rec24Vars, layVars, fetchVars, lineVars, applyVars>>

\* both loops are over: the panel is returned
RenderReturn ==
    /\ rn.pc = "draw"
    /\ rn.k > Len(rn.link_lookup)
    /\ rn.i > Len(rn_in.layout)
    /\ rn' = RenderFinish(rn)
    /\ UNCHANGED <<rn_in, rn_put, ovVars, recVars, anVars, rec24Vars, layVars, fetchVars, lineVars, applyVars>>

\* canvas.put_char(x, y, char) on a canvas of its own
CanvasPutChar ==
    /\ rn.pc = "canvas"
    /\ rn_put.count < MaxPuts
    /\ \E x \in PutXs(rn.canvas.width), y \in PutYs(rn.canvas.height), char \in {"X"} :
          /\ rn' = [rn EXCEPT !.canvas = put_char(@, x, y, char, "")]
          /\ rn_put' = [count |-> rn_put.count + 1, x |-> x, y |-> y, char |-> char]
    /\ UNCHANGED <<rn_in, ovVars, recVars, anVars, rec24Vars, layVars, fetchVars, lineVars, applyVars>>

RenderNext == RenderBegin \/ RenderLink \/ RenderNode \/ RenderReturn \/ CanvasPutChar

SpecRender == RenderInit /\ [][RenderNext]_vars

---------------------------------------------------------------------------
(* Calls of AsciiCanvas.draw_line, one pass of the loop per step *)

LineCanvasWidth == 4
LineCanvasHeight == 3

\* a blank canvas, a canvas holding the node marker [@] in its middle row and
\* a canvas of no cell
LineCanvases ==
    {AsciiCanvas(LineCanvasWidth, LineCanvasHeight),
     put_text(AsciiCanvas(LineCanvasWidth, LineCanvasHeight), 1, 1, <<"[", "@", "]">>, "bold"),
     AsciiCanvas(0, 0)}

\* endpoints on the canvas of LineCanvasWidth columns and one step outside it
LineXs == -1..LineCanvasWidth
LineYs == -1..LineCanvasHeight

LineInit ==
    /\ ln_in \in [canvas : LineCanvases, x0 : LineXs, y0 : LineYs, x1 : LineXs, y1 : LineYs,
                  char : {"-"}, style : {"dim"}]
    /\ ln = LineCalled
    /\ ov_in = OvIdle
    /\ ov_pc = "idle"
    /\ ov_out = OvNone
    /\ r_in = RecInIdle
    /\ rec = RecIdle
    /\ snapshot = EmptySnapshot
    /\ topology = EmptyTopology
    /\ a_calls = 0
    /\ a_out = NoOutcome
    /\ Rec24Idle
    /\ LayoutIdle
    /\ RenderIdle
    /\ FetchIdle
    /\ ApplyIdle

\* the call is entered
LineBegin ==
    /\ ln.pc = "call"
    /\ ln' = DrawLineEnter(ln_in)
    /\ UNCHANGED <<ln_in, ovVars, recVars, anVars, rec24Vars, layVars, renVars, fetchVars, applyVars>>

\* a pass of the loop away from (x1, y1): draw and step
LineIterate ==
    /\ ln.pc = "loop"
    /\ ~(ln.x0 = ln_in.x1 /\ ln.y0 = ln_in.y1)
    /\ ln' = DrawLineIter(ln_in, ln)
    /\ UNCHANGED <<ln_in, ovVars, recVars, anVars, rec24Vars, layVars, renVars, fetchVars, applyVars>>

\* the pass of the loop at (x1, y1): draw and break
LineBreak ==
    /\ ln.pc = "loop"
    /\ ln.x0 = ln_in.x1 /\ ln.y0 = ln_in.y1
    /\ ln' = DrawLineIter(ln_in, ln)
    /\ UNCHANGED <<ln_in, ovVars, recVars, anVars, rec24Vars, layVars, renVars, fetchVars, applyVars>>

LineNext == LineBegin \/ LineIterate \/ LineBreak

SpecLine == LineInit /\ [][LineNext]_vars

\* a call that has begun runs on: nothing but the loop itself holds it up
SpecLineFair == SpecLine /\ WF_vars(LineNext)

---------------------------------------------------------------------------
(* Runs of the apply-plan command, one stage or one command per step *)

MaxApplyAPs == 2

\* APs whose plan rows match alone (36/40, 40/40) and APs with rows to
\* change, an AP of width 0 that makes the analysis raise next to another
\* 5 GHz AP, and a switch
ApplyShapes ==
    <<StdDevice(1, 36, 40), StdDevice(6, 40, 40), StdDevice(3, 149, 80),
      StdDevice(11, 44, 0), UnknownChannelDevice, SwitchDevice>>

ApplyDeviceLists ==
    UNION {{[k \in 1..n |-> WithMac(ApplyShapes[pick[k]], k)] :
              pick \in [1..n -> 1..Len(ApplyShapes)]} : n \in 0..MaxApplyAPs}

ApplyInit ==
    /\ apl_in \in [devices : ApplyDeviceLists, dry_run : BOOLEAN, answer : {"yes", "no"},
                   login_ok : BOOLEAN]
    /\ apl = ApplyCalled
    /\ ov_in = OvIdle
    /\ ov_pc = "idle"
    /\ ov_out = OvNone
    /\ r_in = RecInIdle
    /\ rec = RecIdle
    /\ snapshot = EmptySnapshot
    /\ topology = EmptyTopology
    /\ a_calls = 0
    /\ a_out = NoOutcome
    /\ Rec24Idle
    /\ LayoutIdle
    /\ RenderIdle
    /\ FetchIdle
    /\ LineIdle

\* the snapshot is analysed and the changes are collected
ApplyAnalyze ==
    /\ apl.pc = "call"
    /\ apl' = ApplyAnalyzeTurn(apl_in, apl)
    /\ UNCHANGED <<apl_in, ovVars, recVars, anVars, rec24Vars, layVars, renVars, fetchVars, lineVars>>

\* the changes are printed
ApplyList ==
    /\ apl.pc = "list"
    /\ apl' = ApplyListTurn(apl_in, apl)
    /\ UNCHANGED <<apl_in, ovVars, recVars, anVars, rec24Vars, layVars, renVars, fetchVars, lineVars>>

\* the prompt is answered
ApplyConfirm ==
    /\ apl.pc = "confirm"
    /\ apl' = ApplyConfirmTurn(apl_in, apl)
    /\ UNCHANGED <<apl_in, ovVars, recVars, anVars, rec24Vars, layVars, renVars, fetchVars, lineVars>>

\* the client logs in for the commands
ApplyLogin ==
    /\ apl.pc = "login"
    /\ apl' = ApplyLoginTurn(apl_in, apl)
    /\ UNCHANGED <<apl_in, ovVars, recVars, anVars, rec24Vars, layVars, renVars, fetchVars, lineVars>>

\* the command of the next change is posted; the controller accepts it or not
ApplySend ==
    /\ apl.pc = "send"
    /\ apl.k <= Len(apl.changes)
    /\ \E success \in BOOLEAN : apl' = ApplySendTurn(apl, success)
    /\ UNCHANGED <<apl_in, ovVars, recVars, anVars, rec24Vars, layVars, renVars, fetchVars, lineVars>>

\* every change was sent
ApplyFinish ==
    /\ apl.pc = "send"
    /\ apl.k > Len(apl.changes)
    /\ apl' = ApplyFinishTurn(apl)
    /\ UNCHANGED <<apl_in, ovVars, recVars, anVars, rec24Vars, layVars, renVars, fetchVars, lineVars>>

ApplyNext ==
    ApplyAnalyze \/ ApplyList \/ ApplyConfirm \/ ApplyLogin \/ ApplySend \/ ApplyFinish

SpecApply == ApplyInit /\ [][ApplyNext]_vars

---------------------------------------------------------------------------
(* Calls of fetch_all: one step per turn of a task and per resumption of   *)
(* fetch_all and of its caller                                             *)

FetchInit ==
    /\ f_pc = "call"
    /\ f_tasks = NoTasks
    /\ f_snapshot = NoSnapshot
    /\ f_handed = NoSnapshot
    /\ ov_in = OvIdle
    /\ ov_pc = "idle"
    /\ ov_out = OvNone
    /\ r_in = RecInIdle
    /\ rec = RecIdle
    /\ snapshot = EmptySnapshot
    /\ topology = EmptyTopology
    /\ a_calls = 0
    /\ a_out = NoOutcome
    /\ Rec24Idle
    /\ LayoutIdle
    /\ RenderIdle
    /\ LineIdle
    /\ ApplyIdle

\* await asyncio.gather(self.get_devices(), ...): the seven tasks are made
FetchAllCall ==
    /\ f_pc = "call"
    /\ f_pc' = "gather"
    /\ f_tasks' = GatherCreate
    /\ UNCHANGED <<f_snapshot, f_handed, ovVars, recVars, anVars, rec24Vars, layVars, renVars, lineVars, applyVars>>

\* the first turn of a task: it runs up to the await of its request
TaskStart ==
    /\ f_pc = "gather"
    /\ \E k \in 1..Len(f_tasks) : f_tasks[k].state = "pending"
    /\ f_tasks' = [f_tasks EXCEPT ![NextPending(f_tasks)].state = "inflight"]
    /\ UNCHANGED <<f_pc, f_snapshot, f_handed, ovVars, recVars, anVars, rec24Vars, layVars, renVars, lineVars, applyVars>>

\* a request has finished and its task runs to its end
TaskComplete ==
    /\ f_pc \in {"gather", "raised"}
    /\ \A k \in 1..Len(f_tasks) : f_tasks[k].state # "pending"
    /\ \E k \in 1..Len(f_tasks), response \in Responses :
          /\ f_tasks[k].state = "inflight"
          /\ f_tasks' = [f_tasks EXCEPT ![k] = FetchOutcome(k, response)]
    /\ UNCHANGED <<f_pc, f_snapshot, f_handed, ovVars, recVars, anVars, rec24Vars, layVars, renVars, lineVars, applyVars>>

\* gather hands over the results: fetch_all builds and returns the snapshot
GatherReturn ==
    /\ f_pc = "gather"
    /\ ~GatherFailed(f_tasks)
    /\ GatherReady(f_tasks)
    /\ f_snapshot' = NetworkSnapshot(GatherResults(f_tasks))
    /\ f_pc' = "returned"
    /\ UNCHANGED <<f_tasks, f_handed, ovVars, recVars, anVars, rec24Vars, layVars, renVars, lineVars, applyVars>>

\* gather raises the exception of a task: fetch_all returns nothing
GatherRaise ==
    /\ f_pc = "gather"
    /\ GatherFailed(f_tasks)
    /\ f_pc' = "raised"
    /\ UNCHANGED <<f_tasks, f_snapshot, f_handed, ovVars, recVars, anVars, rec24Vars, layVars, renVars, lineVars, applyVars>>

\* asyncio.run cancels a task that is left when the exception leaves it
TaskCancel ==
    /\ f_pc = "raised"
    /\ \E k \in 1..Len(f_tasks) :
          /\ f_tasks[k].state = "inflight"
          /\ f_tasks' = [f_tasks EXCEPT ![k].state = "cancelled"]
    /\ UNCHANGED <<f_pc, f_snapshot, f_handed, ovVars, recVars, anVars, rec24Vars, layVars, renVars, lineVars, applyVars>>

\* cli.py: snapshot = _run_async(_fetch_snapshot(client)), then the analysis
HandOff ==
    /\ f_pc = "returned"
    /\ f_handed' = f_snapshot
    /\ f_pc' = "analysis"
    /\ UNCHANGED <<f_tasks, f_snapshot, ovVars, recVars, anVars, rec24Vars, layVars, renVars, lineVars, applyVars>>

FetchNext ==
    FetchAllCall \/ TaskStart \/ TaskComplete \/ GatherReturn \/ GatherRaise \/ TaskCancel \/ HandOff

SpecFetch == FetchInit /\ [][FetchNext]_vars

---------------------------------------------------------------------------
(* The whole model: one of the kinds of call *)

Init == OverlapInit \/ RecInit \/ AnalyzeInit \/ Rec24Init \/ LayoutInit \/ RenderInit \/ FetchInit \/ LineInit \/ ApplyInit
Next == OverlapNext \/ RecNext \/ AnalyzeNext \/ Rec24Next \/ LayoutNext \/ RenderNext \/ FetchNext \/ LineNext \/ ApplyNext
Spec == Init /\ [][Next]_vars

---------------------------------------------------------------------------
(* Properties of get_recommended_5g_channels (under SpecRec5g) *)

\* C3: with has_radar_events = true no DFS channel is ever selected, neither
\* by the greedy loop nor by the fill loop, and none is returned.
C3_NoDFSWithRadar ==
    r_in.has_radar_events =>
        /\ ToSet(rec.selected) \cap DFS_5G_CHANNELS = {}
        /\ ToSet(rec.result) \cap DFS_5G_CHANNELS = {}

\* a radar call that needed the fill loop and returned all it could
C3_Witness ==
    /\ rec.pc = "done"
    /\ r_in.has_radar_events
    /\ r_in.num_aps >= 8
    /\ Len(rec.result) = 8

NoRepeats(seq) == \A j, k \in 1..Len(seq) : j # k => seq[j] # seq[k]

\* C4: the selected list, and so the returned list, never holds a channel
\* twice, whatever the AP count, radar flag and neighbor channels.
C4_NoDuplicateChannels == NoRepeats(rec.selected) /\ NoRepeats(rec.result)

\* a call whose fill loop added channels: all 24 candidates are returned
C4_Witness ==
    /\ rec.pc = "done"
    /\ ~r_in.has_radar_events
    /\ r_in.num_aps = 24
    /\ Len(rec.result) = 24

CandidateCount(has_radar_events) == IF has_radar_events THEN 8 ELSE 24
CandidateSet(has_radar_events) ==
    IF has_radar_events THEN ToSet(FALLBACK_5G)
    ELSE DFS_5G_CHANNELS \cup ToSet(FALLBACK_5G)

\* C5: the call returns exactly num_aps channels when num_aps is at most the
\* number of candidates (24 without radar, 8 with radar), and otherwise every
\* candidate exactly once, a list shorter than num_aps.
C5_ResultLength ==
    rec.pc = "done" =>
        IF r_in.num_aps <= CandidateCount(r_in.has_radar_events)
        THEN Len(rec.result) = r_in.num_aps
        ELSE /\ Len(rec.result) = CandidateCount(r_in.has_radar_events)
             /\ ToSet(rec.result) = CandidateSet(r_in.has_radar_events)
             /\ NoRepeats(rec.result)
             /\ Len(rec.result) < r_in.num_aps

\* a call without radar asking for more channels than there are candidates
C5_Witness ==
    /\ rec.pc = "done"
    /\ ~r_in.has_radar_events
    /\ r_in.num_aps > 24
    /\ Len(rec.result) = 24

\* the documented preference order: DFS ascending (no radar), then the fallback
PreferenceOrder(has_radar_events) ==
    (IF has_radar_events THEN <<>> ELSE SortedList(DFS_5G_CHANNELS)) \o FALLBACK_5G
Contested(c) == c \in r_in.neighbor_channels

\* C6: the call honours the preference order: of two returned channels that are
\* equally contested by neighbors the one earlier in the order comes first, and
\* with no neighbor channels a single AP gets a DFS channel without radar and
\* channel 149 with radar.
C6_PreferenceOrderHonoured ==
    rec.pc = "done" =>
        /\ \A j, k \in 1..Len(rec.selected) :
              (j < k /\ Contested(rec.selected[j]) = Contested(rec.selected[k]))
              => ListIndex(PreferenceOrder(r_in.has_radar_events), rec.selected[j])
                 < ListIndex(PreferenceOrder(r_in.has_radar_events), rec.selected[k])
        /\ (r_in.num_aps = 1 /\ r_in.neighbor_channels = {})
              => IF r_in.has_radar_events THEN rec.result = <<149>>
                 ELSE rec.result[1] \in DFS_5G_CHANNELS

\* the 40 MHz pair of a channel as the rule states it
StatedPair(ch) == IF ch % 8 = 0 THEN {ch, ch + 4} ELSE {ch - 4, ch}

\* the stated pairs of the channels of a list are pairwise disjoint
PairsDisjoint(seq) ==
    \A j, k \in 1..Len(seq) : j # k => StatedPair(seq[j]) \cap StatedPair(seq[k]) = {}

\* a step of the greedy loop accepts its candidate exactly when the pair of
\* the candidate meets the pair of no accepted channel, and goes on only
\* while fewer than num_aps channels are accepted
GreedyStepRight ==
    rec.pc = "greedy" =>
        LET ch == RecCandidates[rec.i]
            free == \A k \in 1..Len(rec.selected) :
                        StatedPair(ch) \cap StatedPair(rec.selected[k]) = {}
        IN /\ rec'.selected = IF free THEN Append(rec.selected, ch) ELSE rec.selected
           /\ rec'.pc = "greedy" => Len(rec'.selected) < r_in.num_aps
           /\ PairsDisjoint(rec'.selected)

\* C23: in the greedy phase a candidate is accepted exactly when its 40 MHz
\* pair ({ch, ch+4} if ch mod 8 = 0, otherwise {ch-4, ch}) is disjoint from
\* the pair of every channel accepted before, the phase stops as soon as
\* num_aps channels are accepted, and after every step the pairs of the
\* accepted channels are pairwise disjoint.
C23_GreedyAcceptsDisjointPairs ==
    /\ [](rec.pc = "greedy" =>
             /\ PairsDisjoint(rec.selected)
             /\ Len(rec.selected) < r_in.num_aps \/ rec.selected = <<>>)
    /\ [][GreedyStepRight]_vars

\* the greedy loop is running, has accepted two channels and rejected one
C23_Witness ==
    /\ rec.pc = "greedy"
    /\ Len(rec.selected) >= 2
    /\ rec.i > Len(rec.selected) + 1
    /\ Len(rec.selected) < r_in.num_aps

\* the candidate c was accepted, or its pair meets the pair of an accepted one
SettledBy(c, selected) ==
    \/ c \in ToSet(selected)
    \/ \E k \in 1..Len(selected) : StatedPair(c) \cap StatedPair(selected[k]) # {}

\* a greedy step that accepts a channel in use by a neighbor finds every
\* candidate free of neighbors already looked at, and accepted or in conflict
ContestedAcceptedLast ==
    (/\ rec.pc = "greedy"
     /\ rec'.selected # rec.selected
     /\ Contested(RecCandidates[rec.i]))
    => \A c \in CandidateSet(r_in.has_radar_events) :
          ~Contested(c) =>
              /\ \E j \in 1..(rec.i - 1) : RecCandidates[j] = c
              /\ SettledBy(c, rec.selected)

\* C27: candidates outside neighbor_channels are considered before any inside:
\* the first returned channel is in neighbor_channels only if every candidate
\* is, and the greedy phase accepts a channel in neighbor_channels only after
\* every other candidate was accepted or rejected for a pair conflict.
C27_UncontestedCandidatesFirst ==
    /\ []((rec.pc = "done" /\ rec.result # <<>> /\ Contested(rec.result[1]))
             => \A c \in CandidateSet(r_in.has_radar_events) : Contested(c))
    /\ [][ContestedAcceptedLast]_vars

\* the greedy loop has just accepted a channel in use by a neighbor, after
\* accepting one free of neighbors and rejecting another
C27_Witness ==
    /\ rec.pc = "greedy"
    /\ Len(rec.selected) >= 2
    /\ ~Contested(rec.selected[1])
    /\ Contested(rec.selected[Len(rec.selected)])
    /\ RecCandidates[rec.i - 1] = rec.selected[Len(rec.selected)]
    /\ rec.i > Len(rec.selected) + 1

\* a call returns a first channel in use by a neighbor
C27_FirstReturnedContested ==
    rec.pc = "done" /\ rec.result # <<>> /\ Contested(rec.result[1])

\* the call has returned a full answer that the greedy loop built alone: every
\* selected channel brought its own two entries of used_ranges
FilledByGreedyAlone ==
    /\ rec.pc = "done"
    /\ Len(rec.result) = r_in.num_aps
    /\ Cardinality(rec.used_ranges) = 2 * Len(rec.selected)

\* C22: when the greedy phase alone fills the request, no two distinct returned
\* channels overlap at 40 MHz according to channels_overlap_5g, so that a
\* network set to the recommended channels at 40 MHz gets no 5 GHz overlap
\* warning and no duplicate-channel critical.
C22_GreedyAnswerFreeOfOverlap ==
    FilledByGreedyAlone =>
        \A j, k \in 1..Len(rec.result) :
            rec.result[j] # rec.result[k] =>
                ~channels_overlap_5g(rec.result[j], rec.result[k], 40, 40).value

\* the duplicate-channel half: the channels of such an answer are distinct
C22_GreedyAnswerFreeOfDuplicates ==
    FilledByGreedyAlone => NoRepeats(rec.result)

\* two APs, no radar, no neighbors: the answer is channels 36 and 40, which
\* channels_overlap_5g bonds into one 40 MHz group
C22_OverlappingAnswer ==
    /\ FilledByGreedyAlone
    /\ r_in = [num_aps |-> 2, has_radar_events |-> FALSE, neighbor_channels |-> {}]
    /\ rec.result = <<36, 40>>
    /\ channels_overlap_5g(36, 40, 40, 40).value

---------------------------------------------------------------------------
(* Properties of channels_overlap_5g (under SpecOverlap) *)

\* the number of known channels below c: its index in the ascending list
Rank(c) == Cardinality({d \in ALL_5G_CHANNELS : d < c})

\* the index-aligned block of w/20 consecutive known channels that holds ch
GroupOf(ch, w) ==
    IF ch \in ALL_5G_CHANNELS
    THEN {c \in ALL_5G_CHANNELS : Rank(c) \div (w \div 20) = Rank(ch) \div (w \div 20)}
    ELSE {ch}

\* C7: for widths that are positive multiples of 20 the call returns true
\* exactly when the index-aligned groups of the two assignments intersect (a
\* channel outside the table being its own group); (36,40) at 40/40 overlap
\* and (36,149) at 80/80 do not.
C7_OverlapIffGroupsIntersect ==
    (/\ ov_pc = "done"
     /\ ov_in.width1 > 0 /\ ov_in.width1 % 20 = 0
     /\ ov_in.width2 > 0 /\ ov_in.width2 % 20 = 0)
    => /\ ~ov_out.raised
       /\ ov_out.value <=>
            (GroupOf(ov_in.ch1, ov_in.width1) \cap GroupOf(ov_in.ch2, ov_in.width2)) # {}
       /\ ov_in = [ch1 |-> 36, ch2 |-> 40, width1 |-> 40, width2 |-> 40] => ov_out.value
       /\ ov_in = [ch1 |-> 36, ch2 |-> 149, width1 |-> 80, width2 |-> 80] => ~ov_out.value

\* the adjacent pair bonded into one 40 MHz group
C7_Witness ==
    /\ ov_pc = "done"
    /\ ov_in = [ch1 |-> 36, ch2 |-> 40, width1 |-> 40, width2 |-> 40]
    /\ ov_out = [raised |-> FALSE, value |-> TRUE]

\* C8: a call with ch1 = ch2 returns true for every channel and every pair of
\* widths.
C8_SameChannelAlwaysOverlaps ==
    (ov_pc = "done" /\ ov_in.ch1 = ov_in.ch2) => (~ov_out.raised /\ ov_out.value)

---------------------------------------------------------------------------
(* Properties of rf.analyze (under SpecAnalyze) *)

CalledAps == SnapshotAps(snapshot)
SHARED == "5 GHz channel shared by"

\* the APs whose effective 5 GHz channel is c
SharingAps(c) == {k \in 1..Len(CalledAps) : ApInfo(CalledAps[k]).ch_5g = c}
\* the known (non-zero) effective 5 GHz channels of the snapshot
KnownChannels5g == {ApInfo(CalledAps[k]).ch_5g : k \in 1..Len(CalledAps)} \ {0}
\* the 'shared by' findings of the latest call that name channel c
SharedFindingsFor(c) ==
    {k \in 1..Len(a_out.findings) :
        a_out.findings[k].kind = SHARED /\ a_out.findings[k].ch = c}

DuplicateFindingsRight ==
    /\ \A c \in KnownChannels5g :
          IF Cardinality(SharingAps(c)) >= 2
          THEN /\ Cardinality(SharedFindingsFor(c)) = 1
               /\ \A k \in SharedFindingsFor(c) :
                     /\ a_out.findings[k].severity = "critical"
                     /\ a_out.findings[k].value = Cardinality(SharingAps(c))
          ELSE SharedFindingsFor(c) = {}
    /\ \A k \in 1..Len(a_out.findings) :
          a_out.findings[k].kind = SHARED => a_out.findings[k].ch \in KnownChannels5g
    /\ Len(CalledAps) = 1 =>
          \A k \in 1..Len(a_out.findings) : a_out.findings[k].kind # SHARED

\* C1: for any snapshot, a call emits exactly one critical 'shared by' finding
\* per 5 GHz channel that is the effective channel of two or more APs, naming
\* the channel and the number of APs, and none for any other channel; a
\* single-AP snapshot never yields one.
C1_OneCriticalPerSharedChannel == a_calls > 0 => DuplicateFindingsRight

\* what remains of C1 on the calls that return
C1_HoldsWhenAnalyzeReturns == (a_calls > 0 /\ ~a_out.raised) => DuplicateFindingsRight

\* the plan of the latest call has two rows per AP, 2.4 GHz then 5 GHz, in
\* snapshot order, with the fallbacks 36 and 1, 6, 11
PlanRowsRight ==
    /\ Len(a_out.plan) = 2 * Len(CalledAps)
    /\ \A i \in 0..(Len(CalledAps) - 1) :
          /\ a_out.plan[2 * i + 1].band = "2g"
          /\ a_out.plan[2 * i + 1].ap_mac = CalledAps[i + 1].mac
          /\ a_out.plan[2 * i + 1].recommended_channel \in {1, 6, 11}
          /\ a_out.plan[2 * i + 2].band = "5g"
          /\ a_out.plan[2 * i + 2].ap_mac = CalledAps[i + 1].mac
          /\ i >= CandidateCount(HasRadar(snapshot.events))
                => a_out.plan[2 * i + 2].recommended_channel = 36

\* C2: the plan a call returns for n >= 1 APs has exactly 2n rows, the 2.4 GHz
\* row of the i-th AP followed by its 5 GHz row, whatever the channels are;
\* an AP beyond the 5 GHz heuristic's list (24 channels, 8 with radar) is
\* recommended 36, and no 2.4 GHz recommendation is outside 1, 6, 11.
C2_PlanHasTwoRowsPerAp == (a_calls > 0 /\ Len(CalledAps) >= 1) => PlanRowsRight

\* what remains of C2 on the calls that return
C2_HoldsWhenAnalyzeReturns ==
    (a_calls > 0 /\ ~a_out.raised /\ Len(CalledAps) >= 1) => PlanRowsRight

\* nine APs after a radar event: the ninth AP, of unknown channel, falls back
\* to 36
C2_NinthApFallsBack ==
    /\ a_calls > 0
    /\ ~a_out.raised
    /\ Len(CalledAps) = 9
    /\ HasRadar(snapshot.events)
    /\ Len(a_out.plan) = 18
    /\ a_out.plan[18].current_channel = 0
    /\ a_out.plan[18].recommended_channel = 36

\* C9: a call returns a (findings, plan) pair and never raises, for every
\* snapshot and topology (any width, any integer or text channel, any AP
\* count).
C9_AnalyzeNeverRaises == a_calls > 0 => ~a_out.raised

NoUapDevice == \A k \in 1..Len(snapshot.devices) : snapshot.devices[k].type # "uap"

\* C11: on a snapshot with no device of type 'uap' a call returns exactly one
\* finding, a warning titled 'No APs found', and an empty plan; no other check
\* adds a finding, whatever the neighbours, the events and the topology are.
C11_NoApsOneWarningEmptyPlan ==
    (a_calls > 0 /\ NoUapDevice) =>
        /\ ~a_out.raised
        /\ Len(a_out.findings) = 1
        /\ a_out.findings[1].severity = "warning"
        /\ a_out.findings[1].kind = "No APs found"
        /\ a_out.plan = <<>>

\* a site of switches only, with neighbours that the interference check would
\* otherwise report
C11_Witness ==
    /\ a_calls > 0
    /\ NoUapDevice
    /\ snapshot.devices # <<>>
    /\ snapshot.rogue_aps # <<>>
    /\ Len(a_out.findings) = 1

UTILIZATION == "channel utilization"

\* the cu_total the utilization check reads for an AP and a band
ResolvedUtilization(ap, band) ==
    LET stats == _get_radio_stats(ap, band) IN IF stats.found THEN stats.cu_total ELSE 0

\* the utilization warnings of the latest call for the AP with this MAC and band
UtilizationWarningsFor(mac, band) ==
    {k \in 1..Len(a_out.findings) :
        /\ a_out.findings[k].kind = UTILIZATION
        /\ a_out.findings[k].severity = "warning"
        /\ a_out.findings[k].mac = mac
        /\ a_out.findings[k].band = band}

UtilizationWarningsRight ==
    /\ \A k \in 1..Len(CalledAps) : \A b \in {"2g", "5g"} :
          Cardinality(UtilizationWarningsFor(CalledAps[k].mac, b)) =
              IF ResolvedUtilization(CalledAps[k], b) > 50 THEN 1 ELSE 0
    /\ \A k \in 1..Len(a_out.findings) :
          a_out.findings[k].kind = UTILIZATION =>
              /\ a_out.findings[k].severity = "warning"
              /\ \E j \in 1..Len(CalledAps) : CalledAps[j].mac = a_out.findings[k].mac

\* C12: for every AP and each band a call emits a channel-utilization warning
\* for that AP and band if and only if the utilization resolved for the band
\* is strictly greater than 50, and never more than one per (AP, band).
C12_UtilizationWarningIffAbove50 == a_calls > 0 => UtilizationWarningsRight

\* what remains of C12 on the calls that return
C12_HoldsWhenAnalyzeReturns == (a_calls > 0 /\ ~a_out.raised) => UtilizationWarningsRight

\* a returned call with an AP at 60 on one band, warned, and exactly at 50 on
\* the other, silent, next to an AP at 51, warned
C12_WarnedAndSilentBands ==
    /\ a_calls > 0
    /\ ~a_out.raised
    /\ \E k \in 1..Len(CalledAps) : \E b, c \in {"2g", "5g"} :
          /\ ResolvedUtilization(CalledAps[k], b) = 60
          /\ ResolvedUtilization(CalledAps[k], c) = 50
          /\ UtilizationWarningsFor(CalledAps[k].mac, b) # {}
          /\ UtilizationWarningsFor(CalledAps[k].mac, c) = {}
    /\ \E k \in 1..Len(CalledAps) : \E b \in {"2g", "5g"} :
          /\ ResolvedUtilization(CalledAps[k], b) = 51
          /\ UtilizationWarningsFor(CalledAps[k].mac, b) # {}

\* the floors recorded for a MAC by the topology of the call
FloorsOf(mac) ==
    {topology.placements[k].floor :
        k \in {j \in 1..Len(topology.placements) : topology.placements[j].mac = mac}}

\* C13: in the plan a call returns, a 5 GHz row recommends power 'high' if and
\* only if the topology has a placement for the row's AP whose floor is
\* 'detached'; for any other floor and for an AP with no placement it
\* recommends 'medium'.
C13_HighPowerIffDetached ==
    a_calls > 0 =>
        \A r \in 1..Len(a_out.plan) :
            a_out.plan[r].band = "5g" =>
                a_out.plan[r].recommended_power =
                    IF "detached" \in FloorsOf(a_out.plan[r].ap_mac) THEN "high" ELSE "medium"

\* a plan with a detached AP at 'high', APs on the three other floors at
\* 'medium' and an AP without placement at 'medium'
C13_Witness ==
    /\ a_calls > 0
    /\ ~a_out.raised
    /\ \E r \in 1..Len(a_out.plan) :
          /\ a_out.plan[r].band = "5g"
          /\ FloorsOf(a_out.plan[r].ap_mac) = {"detached"}
          /\ a_out.plan[r].recommended_power = "high"
    /\ \A f \in {"ground", "upper", "basement"} :
          \E r \in 1..Len(a_out.plan) :
              /\ a_out.plan[r].band = "5g"
              /\ FloorsOf(a_out.plan[r].ap_mac) = {f}
              /\ a_out.plan[r].recommended_power = "medium"
    /\ \E r \in 1..Len(a_out.plan) :
          /\ a_out.plan[r].band = "5g"
          /\ FloorsOf(a_out.plan[r].ap_mac) = {}
          /\ a_out.plan[r].recommended_power = "medium"

---------------------------------------------------------------------------
(* Properties of get_recommended_24g_channels (under SpecRec24g) *)

\* C14: for every n >= 0 the call returns a list of length n whose i-th
\* element (from 0) is the (i mod 3)-th element of [1, 6, 11], so that every
\* element is a valid 2.4 GHz channel.
C14_CyclesThrough1_6_11 ==
    g24.pc = "done" =>
        /\ Len(g24.result) = g_in
        /\ \A i \in 0..(g_in - 1) :
              /\ g24.result[i + 1] = (CASE i % 3 = 0 -> 1 [] i % 3 = 1 -> 6 [] i % 3 = 2 -> 11)
              /\ is_valid_24g_channel(g24.result[i + 1])
        /\ g24.result = get_recommended_24g_channels(g_in)

\* the call for 4 APs returned [1, 6, 11, 1]
C14_Witness == g24.pc = "done" /\ g_in = 4 /\ g24.result = <<1, 6, 11, 1>>

---------------------------------------------------------------------------
(* Properties of compute_layout (under SpecLayout) *)

LayoutPlacements == l_in.topology.placements
LayoutReturned == lay.pc = "done"

\* C15: compute_layout returns no position for 0 placements, the point
\* (0.5, 0.5) for 1 placement and the pair (0.2, 0.5), (0.8, 0.5) in
\* placement order for 2 placements, whatever the links, their distances,
\* the iteration count and the seed are.
C15_EdgeCasesAreFixed ==
    LayoutReturned =>
        /\ Len(LayoutPlacements) = 0 => lay.result = <<>>
        /\ Len(LayoutPlacements) = 1 =>
              /\ Len(lay.result) = 1
              /\ lay.result[1].mac = LayoutPlacements[1].mac
              /\ lay.result[1].x = FDec(5, 10)
              /\ lay.result[1].y = FDec(5, 10)
        /\ Len(LayoutPlacements) = 2 =>
              /\ Len(lay.result) = 2
              /\ lay.result[1].mac = LayoutPlacements[1].mac
              /\ lay.result[1].x = FDec(2, 10)
              /\ lay.result[1].y = FDec(5, 10)
              /\ lay.result[2].mac = LayoutPlacements[2].mac
              /\ lay.result[2].x = FDec(8, 10)
              /\ lay.result[2].y = FDec(5, 10)

\* two linked placements, two iterations asked for, a seed other than the
\* default: the fixed pair is returned
C15_Witness ==
    /\ LayoutReturned
    /\ Len(LayoutPlacements) = 2
    /\ l_in.topology.links = <<Link(1, 2, 30)>>
    /\ l_in.iterations = 2
    /\ l_in.seed = 7
    /\ lay.result[1].x = FDec(2, 10)
    /\ lay.result[2].x = FDec(8, 10)


\* the MACs of the placements, and a topology without the links that name
\* a MAC of no placement
PlacementMacs(placements) == {placements[i].mac : i \in 1..Len(placements)}
IsKnownLink(placements, link) ==
    link.ap1_mac \in PlacementMacs(placements) /\ link.ap2_mac \in PlacementMacs(placements)
WithoutUnknownLinks(topology_) ==
    [topology_ EXCEPT !.links = SelectSeq(@, LAMBDA link : IsKnownLink(topology_.placements, link))]
HasUnknownLink(topology_) == WithoutUnknownLinks(topology_) # topology_

\* the longest distance among the links of a list (0 for none)
RECURSIVE LongestLink(_)
LongestLink(links) ==
    IF links = <<>> THEN 0
    ELSE IF Head(links).distance_ft > LongestLink(Tail(links))
         THEN Head(links).distance_ft ELSE LongestLink(Tail(links))

\* C16: for 3 or more placements, compute_layout returns the coordinates it
\* returns for the same topology without the links that name a MAC of no
\* placement, whatever distance those links record.
C16_UnknownLinksIgnored ==
    (LayoutReturned /\ Len(LayoutPlacements) >= 3) =>
        lay.result = compute_layout(WithoutUnknownLinks(l_in.topology), l_in.iterations, l_in.seed)

\* what does hold: the links of unknown MACs change nothing unless one of
\* them records the longest distance of all links while a known link exists
C16_HoldsUnlessLongest ==
    (/\ LayoutReturned
     /\ Len(LayoutPlacements) >= 3
     /\ \/ WithoutUnknownLinks(l_in.topology).links = <<>>
        \/ l_in.iterations = 0
        \/ LongestLink(l_in.topology.links) = LongestLink(WithoutUnknownLinks(l_in.topology).links)) =>
        lay.result = compute_layout(WithoutUnknownLinks(l_in.topology), l_in.iterations, l_in.seed)

\* a link to an unknown MAC that is not the longest was ignored
C16_ShorterUnknownLinkIgnored ==
    /\ LayoutReturned
    /\ Len(LayoutPlacements) >= 3
    /\ l_in.iterations >= 1
    /\ l_in.topology.links = <<Link(1, 2, 30), Link(99, 1, 10)>>
    /\ lay.result = compute_layout(WithoutUnknownLinks(l_in.topology), l_in.iterations, l_in.seed)


\* one position per placement, in placement order, with its MAC and name
OnePositionPerPlacement ==
    /\ Len(lay.result) = Len(LayoutPlacements)
    /\ \A i \in 1..Len(LayoutPlacements) :
          /\ lay.result[i].mac = LayoutPlacements[i].mac
          /\ lay.result[i].name = LayoutPlacements[i].name

\* v is a float of the interval [0.05, 0.95]
InMargins(v) == ~FLess(v, FDec(5, 100)) /\ ~FGreater(v, FDec(95, 100))

\* C17: for 3 or more placements, compute_layout returns exactly one position
\* per placement, in placement order and with that placement's MAC and name,
\* and every returned x and y lies in [0.05, 0.95].
C17_OnePositionEachWithinMargins ==
    (LayoutReturned /\ Len(LayoutPlacements) >= 3) =>
        /\ OnePositionPerPlacement
        /\ \A i \in 1..Len(lay.result) : InMargins(lay.result[i].x) /\ InMargins(lay.result[i].y)

\* what does hold: the positions match the placements, no coordinate is
\* below 0.05, and none is above 0.05 + 1.0 * 0.9 as the floats compute it
C17_HoldsUpToRounding ==
    (LayoutReturned /\ Len(LayoutPlacements) >= 3) =>
        /\ OnePositionPerPlacement
        /\ \A i \in 1..Len(lay.result) :
              /\ ~FLess(lay.result[i].x, FDec(5, 100))
              /\ ~FLess(lay.result[i].y, FDec(5, 100))
              /\ ~FGreater(lay.result[i].x, WithMargin(F_ONE))
              /\ ~FGreater(lay.result[i].y, WithMargin(F_ONE))

\* the node farthest to the right got 0.05 + 1.0 * 0.9, which is above 0.95
C17_AboveTheMargin ==
    /\ LayoutReturned
    /\ Len(LayoutPlacements) = 3
    /\ l_in.topology.links = <<>>
    /\ \E i \in 1..3 : lay.result[i].x = WithMargin(F_ONE) /\ FGreater(lay.result[i].x, FDec(95, 100))


\* the positions compute_layout returns for the arguments of the call when
\* the seed is s
LayoutWithSeed(s) == compute_layout(l_in.topology, l_in.iterations, s)

---------------------------------------------------------------------------
(* Properties of render_topology_map and AsciiCanvas (under SpecRender) *)

\* the coordinates are outside the grid of the canvas
OutsideGrid(canvas, x, y) == x < 0 \/ x >= canvas.width \/ y < 0 \/ y >= canvas.height

\* the grid has canvas_height rows of canvas_width cells
GridKeepsItsShape ==
    rn.pc \notin {"idle", "call"} =>
        /\ Len(rn.canvas.grid) = rn_in.canvas_height
        /\ \A y \in 1..Len(rn.canvas.grid) : Len(rn.canvas.grid[y]) = rn_in.canvas_width

\* an empty position list gets a panel: the grid is blank but for the part
\* of "No APs configured" that falls into the middle row
EmptyLayoutGetsPanel ==
    (rn_in.layout = <<>> /\ rn.pc \notin {"idle", "call", "canvas"}) =>
        /\ rn.pc = "done"
        /\ Len(rn.panel.renderable) =
              rn_in.canvas_height * rn_in.canvas_width +
              (IF rn_in.canvas_height = 0 THEN 0 ELSE rn_in.canvas_height - 1)
        /\ \A y \in 1..rn_in.canvas_height, x \in 1..rn_in.canvas_width :
              LET k == (x - 1) - (rn_in.canvas_width \div 2 - 8) + 1
              IN rn.canvas.grid[y][x].char =
                    IF y - 1 = rn_in.canvas_height \div 2 /\ k >= 1 /\ k <= Len(NO_APS_TEXT)
                    THEN NO_APS_TEXT[k] ELSE " "

\* a step that draws a node whose label fits no candidate writes the part
\* of the label that the row has room for, from two cells right of the
\* marker, and no other cell
FallbackIsClipped ==
    (/\ rn.pc = "draw"
     /\ rn'.i = rn.i + 1
     /\ rn'.sides[Len(rn'.sides)] = "fallback") =>
        LET pos == rn_in.layout[rn.i]
            p == NodeCoords(rn_in.layout, pos.mac, rn_in.canvas_width, rn_in.canvas_height)
            floor == FloorOfMac(rn_in.topology.placements, pos.mac)
            cut == CutLabel(NodeLabel(pos, floor, rn_in.client_counts), MAX_LABEL_LEN)
            marked == MarkNode(rn_in, rn.canvas, pos)
        IN /\ rn'.pc = "draw"
           /\ \A y \in 1..rn_in.canvas_height, x \in 1..rn_in.canvas_width :
                 rn'.canvas.grid[y][x] =
                    IF y - 1 = p.cy /\ x - 1 >= p.cx + 2 /\ x - 1 < p.cx + 2 + Len(cut)
                    THEN GridCell(cut[x - 1 - (p.cx + 2) + 1], FLOOR_STYLES(floor))
                    ELSE marked.grid[y][x]

\* put_char with coordinates outside the grid changes no cell, with
\* coordinates inside it changes the cell it names
PutCharStaysInside ==
    rn_put'.count = rn_put.count + 1 =>
        IF OutsideGrid(rn.canvas, rn_put'.x, rn_put'.y)
        THEN rn'.canvas = rn.canvas
        ELSE /\ rn'.canvas.raised = "none"
             /\ rn'.canvas.grid[rn_put'.y + 1][rn_put'.x + 1].char = rn_put'.char

\* C19: render_topology_map never raises and never writes outside the
\* character grid: it returns a panel for an empty position list; for a node
\* whose label fits none of the four candidate positions (a label longer
\* than the canvas included) it places the label right of the marker,
\* overlapping and clipped to the grid; put_char with coordinates outside the
\* grid leaves every cell unchanged.
C19_RenderNeverRaisesNorLeavesGrid ==
    /\ [](rn.pc # "raised" /\ rn.canvas.raised = "none")
    /\ [](GridKeepsItsShape /\ EmptyLayoutGetsPanel)
    /\ [][FallbackIsClipped /\ PutCharStaysInside]_vars

\* a call on a canvas 9 wide returned its panel after the 15 characters of
\* a cut label fitted nowhere: the label starts in the last cell of its row
C19_Witness ==
    /\ rn.pc = "done"
    /\ rn_in.canvas_width = 9
    /\ rn_in.canvas_height = 3
    /\ Len(rn_in.layout) = 2
    /\ Len(rn_in.layout[2].name) > rn_in.canvas_width
    /\ rn.sides[2] = "fallback"
    /\ rn.canvas.grid[2][9].char = "D"
    /\ rn.panel # NoPanel

---------------------------------------------------------------------------
(* Properties of UniFiClient.fetch_all (under SpecFetch) *)

\* the field of a snapshot holds the result of the fetch at position k of
\* the gather call, a list of items of that fetch's model class
HoldsOwnResult(field, k, cls) ==
    /\ f_tasks[k].state = "done"
    /\ field = f_tasks[k].result
    /\ \A j \in 1..Len(field) : field[j].cls = cls

\* the snapshot was built from seven finished fetches, field by field
BuiltFromAllSeven(s) ==
    /\ \A k \in 1..Len(f_tasks) : f_tasks[k].state = "done"
    /\ HoldsOwnResult(s.devices, 1, "DeviceInfo")
    /\ HoldsOwnResult(s.clients, 2, "ClientInfo")
    /\ HoldsOwnResult(s.rogue_aps, 3, "RogueAP")
    /\ HoldsOwnResult(s.wlan_configs, 4, "WLANConfig")
    /\ HoldsOwnResult(s.settings, 5, "SiteSetting")
    /\ HoldsOwnResult(s.health, 6, "HealthSubsystem")
    /\ HoldsOwnResult(s.events, 7, "Event")

\* C20: fetch_all starts its seven fetches concurrently (none finishes
\* before all seven are started) and builds the NetworkSnapshot only after
\* all seven have completed, in whatever order they complete: no snapshot
\* exists or is handed to the analysis while a fetch is in flight, each
\* field holds the result of its own fetch, and if a fetch raises no
\* snapshot is produced.
C20_SnapshotOnlyAfterAllFetches ==
    /\ f_pc \notin {"idle", "call"} => Len(f_tasks) = 7 /\ \A k \in 1..7 : f_tasks[k].state # "none"
    /\ (\E k \in 1..7 : f_tasks[k].state \in {"done", "raised"}) =>
          \A k \in 1..7 : f_tasks[k].state # "pending"
    /\ f_snapshot # NoSnapshot => BuiltFromAllSeven(f_snapshot)
    /\ f_handed # NoSnapshot => BuiltFromAllSeven(f_handed)
    /\ f_pc \in {"returned", "analysis"} => f_snapshot # NoSnapshot
    /\ (\E k \in 1..7 : f_tasks[k].state = "raised") =>
          f_snapshot = NoSnapshot /\ f_handed = NoSnapshot

\* the analysis got a snapshot whose devices came from a data array and
\* whose events came from a request that failed, the other five fetches done
C20_Witness ==
    /\ f_pc = "analysis"
    /\ f_handed.devices = <<[cls |-> "DeviceInfo"]>>
    /\ f_handed.health = <<[cls |-> "HealthSubsystem"]>>
    /\ f_handed.events = <<>>
    /\ \A k \in 1..7 : f_tasks[k].state = "done"

\* all seven requests were in flight at once
C20_AllInFlight == f_pc = "gather" /\ \A k \in 1..7 : f_tasks[k].state = "inflight"

\* a fetch raised while others were in flight, and fetch_all raised
C20_RaisedWhileInFlight ==
    /\ f_pc = "raised"
    /\ f_tasks[3].state = "raised"
    /\ f_tasks[1].state = "inflight"
    /\ f_snapshot = NoSnapshot

\* the effective channel of an AP for a band
EffectiveChannelOf(ap, band) == IF band = "2g" THEN ApInfo(ap).ch_2g ELSE ApInfo(ap).ch_5g

\* the findings of the latest call that name the AP with this MAC for a band
FindingsAbout(mac, band) ==
    {k \in 1..Len(a_out.findings) :
        /\ a_out.findings[k].band = band
        /\ a_out.findings[k].mac = mac \/ a_out.findings[k].mac2 = mac}

\* the plan rows of the latest call for the AP with this MAC and a band
PlanRowsOf(mac, band) ==
    {r \in 1..Len(a_out.plan) : a_out.plan[r].ap_mac = mac /\ a_out.plan[r].band = band}

\* the checks that read the channel dicts
CHANNEL_CHECKS == {"Invalid 2.4 GHz channel", "5 GHz channel overlap"}

UnknownChannelHasPlanRow ==
    \A k \in 1..Len(CalledAps) : \A b \in {"2g", "5g"} :
        EffectiveChannelOf(CalledAps[k], b) = 0 =>
            /\ Cardinality(PlanRowsOf(CalledAps[k].mac, b)) = 1
            /\ \A r \in PlanRowsOf(CalledAps[k].mac, b) : a_out.plan[r].current_channel = 0

\* C24: an AP whose effective channel for a band is 0 gets no finding about it
\* for that band (invalid channel, width, duplicate, overlap, utilization,
\* noise floor, power), and still gets a plan row for that band with current
\* channel 0.
C24_UnknownChannelExcludedFromChecks ==
    a_calls > 0 =>
        /\ \A k \in 1..Len(CalledAps) : \A b \in {"2g", "5g"} :
              EffectiveChannelOf(CalledAps[k], b) = 0 =>
                  FindingsAbout(CalledAps[k].mac, b) = {}
        /\ UnknownChannelHasPlanRow

\* what holds of C24 on the calls that return: the plan row, and no finding
\* of the checks that read the channel dicts
C24_HoldsWhenAnalyzeReturns ==
    (a_calls > 0 /\ ~a_out.raised) =>
        /\ UnknownChannelHasPlanRow
        /\ \A k \in 1..Len(CalledAps) : \A b \in {"2g", "5g"} :
              EffectiveChannelOf(CalledAps[k], b) = 0 =>
                  \A f \in FindingsAbout(CalledAps[k].mac, b) :
                      a_out.findings[f].kind \notin CHANNEL_CHECKS

\* one AP of unknown channel on both bands, its 2.4 GHz radio at width 40,
\* high power, utilization 80 and noise floor -80: the call returns four
\* findings about its 2.4 GHz band and two about its 5 GHz band
C24_UnknownChannelStillChecked ==
    /\ a_calls > 0
    /\ ~a_out.raised
    /\ Len(CalledAps) = 1
    /\ EffectiveChannelOf(CalledAps[1], "2g") = 0
    /\ EffectiveChannelOf(CalledAps[1], "5g") = 0
    /\ {a_out.findings[k].kind : k \in FindingsAbout(CalledAps[1].mac, "2g")}
          = {"2.4 GHz width", "channel utilization", "noise floor", "2.4 GHz power is too high"}
    /\ {a_out.findings[k].kind : k \in FindingsAbout(CalledAps[1].mac, "5g")}
          = {"channel utilization", "noise floor"}

\* the text holds the letters r, a, d, a, r in a row, each in either case
MentionsRadar(text) ==
    \E k \in 0..(Len(text) - 5) :
        /\ text[k + 1] \in {"r", "R"}
        /\ text[k + 2] \in {"a", "A"}
        /\ text[k + 3] \in {"d", "D"}
        /\ text[k + 4] \in {"a", "A"}
        /\ text[k + 5] \in {"r", "R"}

\* some event of the snapshot mentions radar in its key or its message
RadarInLog ==
    \E k \in 1..Len(snapshot.events) :
        MentionsRadar(snapshot.events[k].key) \/ MentionsRadar(snapshot.events[k].msg)

\* the 5 GHz rows of the plan of the latest call
Rows5g == {r \in 1..Len(a_out.plan) : a_out.plan[r].band = "5g"}

\* C25: when an event's key or message contains 'radar' in any letter case,
\* every 5 GHz recommendation of the plan is a non-DFS channel, whatever the
\* number of APs (the fallback 36 included); when no event mentions radar the
\* heuristic is called with the radar flag false.
C25_RadarKeepsPlanOffDFS ==
    a_calls > 0 =>
        IF RadarInLog
        THEN \A r \in Rows5g :
                /\ a_out.plan[r].recommended_channel \in NON_DFS_5G_CHANNELS
                /\ a_out.plan[r].recommended_channel \notin DFS_5G_CHANNELS
                /\ ~a_out.plan[r].dfs_preferred
        ELSE \A r \in Rows5g : a_out.plan[r].dfs_preferred

\* nine APs after an event saying 'Radar!': eight non-DFS channels and the
\* fallback 36 for the ninth
C25_Witness ==
    /\ a_calls > 0
    /\ ~a_out.raised
    /\ RadarInLog
    /\ Cardinality(Rows5g) = 9
    /\ {a_out.plan[r].recommended_channel : r \in Rows5g} = NON_DFS_5G_CHANNELS \ {165}
    /\ a_out.plan[18].recommended_channel = 36

\* a plan made with no radar in the log that recommends a DFS channel
C25_NoRadarPlanUsesDFS ==
    /\ a_calls > 0
    /\ ~RadarInLog
    /\ \E r \in Rows5g : a_out.plan[r].recommended_channel \in DFS_5G_CHANNELS

OVERLAP == "5 GHz channel overlap"

\* the overlap warnings of the latest call that name the two MACs, either way
OverlapWarningsFor(m1, m2) ==
    {k \in 1..Len(a_out.findings) :
        /\ a_out.findings[k].kind = OVERLAP
        /\ a_out.findings[k].severity = "warning"
        /\ {a_out.findings[k].mac, a_out.findings[k].mac2} = {m1, m2}}

\* two APs of known, different 5 GHz channels whose assignments overlap
OverlappingPair(a, b) ==
    /\ ApInfo(a).ch_5g # 0
    /\ ApInfo(b).ch_5g # 0
    /\ ApInfo(a).ch_5g # ApInfo(b).ch_5g
    /\ channels_overlap_5g(ApInfo(a).ch_5g, ApInfo(b).ch_5g,
                           ApInfo(a).w_5g, ApInfo(b).w_5g).value

OverlapWarningsRight ==
    /\ \A i, j \in 1..Len(CalledAps) :
          i < j =>
              Cardinality(OverlapWarningsFor(CalledAps[i].mac, CalledAps[j].mac)) =
                  IF OverlappingPair(CalledAps[i], CalledAps[j]) THEN 1 ELSE 0
    /\ \A k \in 1..Len(a_out.findings) :
          a_out.findings[k].kind = OVERLAP =>
              /\ a_out.findings[k].severity = "warning"
              /\ \E i, j \in 1..Len(CalledAps) :
                    /\ i < j
                    /\ a_out.findings[k].mac = CalledAps[i].mac
                    /\ a_out.findings[k].mac2 = CalledAps[j].mac

\* C26: a call emits exactly one overlap warning for each unordered pair of
\* APs that have known 5 GHz channels, are on different channels and overlap
\* per channels_overlap_5g, and none for a pair on the same channel or a pair
\* that does not overlap.
C26_OneOverlapWarningPerPair == a_calls > 0 => OverlapWarningsRight

\* what remains of C26 on the calls that return
C26_HoldsWhenAnalyzeReturns == (a_calls > 0 /\ ~a_out.raised) => OverlapWarningsRight

\* a returned call with a warned pair (36 and 40 at 40 MHz), a silent pair on
\* one channel and a silent pair on different channels
C26_WarnedAndSilentPairs ==
    /\ a_calls > 0
    /\ ~a_out.raised
    /\ \E i, j \in 1..Len(CalledAps) :
          /\ i < j
          /\ ApInfo(CalledAps[i]).ch_5g = 36 /\ ApInfo(CalledAps[j]).ch_5g = 40
          /\ Cardinality(OverlapWarningsFor(CalledAps[i].mac, CalledAps[j].mac)) = 1
    /\ \E i, j \in 1..Len(CalledAps) :
          /\ i < j
          /\ ApInfo(CalledAps[i]).ch_5g = 40 /\ ApInfo(CalledAps[j]).ch_5g = 40
          /\ OverlapWarningsFor(CalledAps[i].mac, CalledAps[j].mac) = {}

\* a returned call with a silent pair on different channels (36 and 149)
C26_SilentDistantPair ==
    /\ a_calls > 0
    /\ ~a_out.raised
    /\ \E i, j \in 1..Len(CalledAps) :
          /\ ApInfo(CalledAps[i]).ch_5g = 36 /\ ApInfo(CalledAps[j]).ch_5g = 149
          /\ OverlapWarningsFor(CalledAps[i].mac, CalledAps[j].mac) = {}

\* the call on APs at 36, 40 and 44 (the last of width 0) raises: the
\* overlapping pair 36 and 40 goes without its warning
C26_RaisedBeforeWarning ==
    /\ a_calls > 0
    /\ a_out.raised
    /\ Len(CalledAps) = 3
    /\ OverlappingPair(CalledAps[1], CalledAps[2])
    /\ ApInfo(CalledAps[3]).w_5g = 0
    /\ OverlapWarningsFor(CalledAps[1].mac, CalledAps[2].mac) = {}

\* the latest call emitted a finding of this severity and kind
Emitted(severity, kind) ==
    \E k \in 1..Len(a_out.findings) :
        a_out.findings[k].severity = severity /\ a_out.findings[k].kind = kind

\* the APs of the snapshot with a known channel on the band
KnownOn(band) == {k \in 1..Len(CalledAps) : EffectiveChannelOf(CalledAps[k], band) # 0}

GoodNeverContradicts ==
    /\ ~(Emitted("good", "All 5 GHz channels are unique") /\ Emitted("critical", SHARED))
    /\ Cardinality(KnownOn("5g")) >= 2 =>
          (Emitted("good", "All 5 GHz channels are unique") \/ Emitted("critical", SHARED))
    /\ Emitted("good", "All 2.4 GHz channels are valid") <=>
          (KnownOn("2g") # {} /\ ~Emitted("warning", "Invalid 2.4 GHz channel"))

\* C28: the good finding 'All 5 GHz channels are unique' and a critical
\* 'shared by' finding never occur together, and with two or more APs of
\* known 5 GHz channel exactly one of the two occurs; the good finding 'All
\* 2.4 GHz channels are valid' occurs exactly when some AP has a known
\* 2.4 GHz channel and no 'Invalid 2.4 GHz channel' warning was emitted.
C28_GoodFindingsNeverContradict == a_calls > 0 => GoodNeverContradicts

\* what remains of C28 on the calls that return
C28_HoldsWhenAnalyzeReturns == (a_calls > 0 /\ ~a_out.raised) => GoodNeverContradicts

\* a returned call with the 'shared by' critical and without the 5 GHz good
\* finding, and with an invalid 2.4 GHz channel and without the 2.4 GHz one
C28_ProblemsSilenceGood ==
    /\ a_calls > 0
    /\ ~a_out.raised
    /\ Emitted("critical", SHARED)
    /\ ~Emitted("good", "All 5 GHz channels are unique")
    /\ Emitted("warning", "Invalid 2.4 GHz channel")
    /\ ~Emitted("good", "All 2.4 GHz channels are valid")

\* a returned call with both good findings
C28_BothGood ==
    /\ a_calls > 0
    /\ ~a_out.raised
    /\ Emitted("good", "All 5 GHz channels are unique")
    /\ Emitted("good", "All 2.4 GHz channels are valid")

\* the call on two APs at 36 and 44 (width 0), both on valid 2.4 GHz
\* channels, raises: neither 5 GHz finding and no 2.4 GHz good finding
C28_RaisedWithoutEither ==
    /\ a_calls > 0
    /\ a_out.raised
    /\ Cardinality(KnownOn("5g")) = 2
    /\ Cardinality(KnownOn("2g")) = 2
    /\ \A k \in 1..Len(CalledAps) : is_valid_24g_channel(ApInfo(CalledAps[k]).ch_2g)
    /\ a_out.findings = <<>>

---------------------------------------------------------------------------
(* The temperature of compute_layout (under SpecLayout) *)

\* |a - b| is below one thousandth: equal up to the rounding of the arithmetic
FNear(a, b) ==
    /\ FLess(FSub(a, b), FDec(1, 1000))
    /\ FLess(FSub(b, a), FDec(1, 1000))

\* a step of the simulation loop, from one iteration to the next
IterationStep ==
    /\ lay.pc = "iterate"
    /\ lay'.pc = "iterate"
    /\ lay'.iteration = lay.iteration + 1

\* how far node i moves in the step
Moved(i) ==
    LET mx == FSub(lay'.positions[i][1], lay.positions[i][1])
        my == FSub(lay'.positions[i][2], lay.positions[i][2])
    IN FSqrt(FAdd(FMul(mx, mx), FMul(my, my)))

\* in a step the temperature does not rise and caps the move of every node
\* (up to the rounding of the arithmetic)
TemperatureCaps ==
    IterationStep =>
        /\ ~FGreater(lay'.t, lay.t)
        /\ \A i \in 1..Len(lay.positions) :
              ~FGreater(Moved(i), FAdd(lay.t, FDec(1, 1000)))

\* the temperature an iteration runs at lies on a line through 0.1 at
\* iteration 0: its drop since the start is the iteration index times its
\* drop in the step
LinearDecay ==
    (IterationStep /\ lay'.iteration < l_in.iterations) =>
        FNear(FSub(FDec(1, 10), lay.t),
              FMul(FromInt(lay.iteration), FSub(lay.t, lay'.t)))

TemperatureStartsPositive ==
    lay.pc = "iterate" =>
        /\ FGreater(lay.t, FZero)
        /\ lay.iteration = 0 => lay.t = FDec(1, 10)

\* C29: the temperature starts at 0.1, decays linearly with the iteration
\* index across the iteration count and never reaches zero: it is strictly
\* positive and non-increasing in every iteration, and no node moves farther
\* than the temperature in one iteration.
C29_TemperatureDecaysLinearly ==
    /\ []TemperatureStartsPositive
    /\ [][TemperatureCaps /\ LinearDecay]_vars

\* what holds of C29: all of it but the linear decay
C29_HoldsButLinearity ==
    /\ []TemperatureStartsPositive
    /\ [][TemperatureCaps]_vars

\* three iterations: the third runs at 0.1 * 3/4 * 2/4 = 0.0375, where the
\* line through 0.1 and 0.075 gives 0.05
C29_ThirdIterationBelowTheLine ==
    /\ lay.pc = "iterate"
    /\ l_in.iterations = 3
    /\ lay.iteration = 2
    /\ FNear(lay.t, FDec(375, 10000))
    /\ ~FNear(lay.t, FDec(5, 100))

\* a node has been moved by the full temperature of the first iteration
C29_MovedByTemperature ==
    /\ lay.pc = "iterate"
    /\ lay.iteration = 1
    /\ \E i \in 1..Len(lay.positions) :
          LET start == InitialPositions(Len(lay.positions), l_in.seed)
              mx == FSub(lay.positions[i][1], start[i][1])
              my == FSub(lay.positions[i][2], start[i][2])
          IN FNear(FSqrt(FAdd(FMul(mx, mx), FMul(my, my))), FDec(1, 10))

---------------------------------------------------------------------------
(* Properties of AsciiCanvas.draw_line (under SpecLineFair) *)

\* the point is a cell of the canvas the call was given
InGrid(p) == 0 <= p[1] /\ p[1] < ln_in.canvas.width /\ 0 <= p[2] /\ p[2] < ln_in.canvas.height

\* the cell of a canvas at an in-grid point
CellAt(canvas, p) == canvas.grid[p[2] + 1][p[1] + 1]

\* max(|x1 - x0|, |y1 - y0|) of the endpoints of the call
LongerSpan ==
    LET ax == IF ln_in.x1 >= ln_in.x0 THEN ln_in.x1 - ln_in.x0 ELSE ln_in.x0 - ln_in.x1
        ay == IF ln_in.y1 >= ln_in.y0 THEN ln_in.y1 - ln_in.y0 ELSE ln_in.y0 - ln_in.y1
    IN IF ax >= ay THEN ax ELSE ay

\* the loop starts at (x0, y0) and takes at most LongerSpan steps from it
LineStartsAndIsShort ==
    ln.visited # <<>> =>
        /\ ln.visited[1] = <<ln_in.x0, ln_in.y0>>
        /\ Len(ln.visited) - 1 <= LongerSpan

\* the returned call ended at (x1, y1) and every in-grid cell it stood on
\* holds the line character, or the node marker it held before
LineEndsAndIsDrawn ==
    ln.pc = "done" =>
        /\ ln.canvas.raised = "none"
        /\ ln.visited[Len(ln.visited)] = <<ln_in.x1, ln_in.y1>>
        /\ \A k \in 1..Len(ln.visited) :
              InGrid(ln.visited[k]) =>
                  CellAt(ln.canvas, ln.visited[k]) =
                      IF CellAt(ln_in.canvas, ln.visited[k]).char \in {"@", "[", "]"}
                      THEN CellAt(ln_in.canvas, ln.visited[k])
                      ELSE [char |-> ln_in.char, style |-> ln_in.style]

\* C30: draw_line terminates for every pair of integer endpoints, inside or
\* outside the grid; it visits (x0, y0) first and (x1, y1) last, takes at most
\* max(|x1-x0|, |y1-y0|) steps, and writes the line character to every visited
\* in-grid cell but those holding '@', '[' or ']', which it leaves unchanged.
C30_DrawLineTerminatesAndDraws ==
    /\ <>(ln.pc = "done")
    /\ [](LineStartsAndIsShort /\ LineEndsAndIsDrawn)

\* a returned line from outside the grid to outside the grid that crossed a
\* node marker and drew a cell beside it
C30_Witness ==
    /\ ln.pc = "done"
    /\ ~InGrid(<<ln_in.x0, ln_in.y0>>)
    /\ ~InGrid(<<ln_in.x1, ln_in.y1>>)
    /\ ln_in.x0 # ln_in.x1 /\ ln_in.y0 # ln_in.y1
    /\ \E k \in 1..Len(ln.visited) :
          /\ InGrid(ln.visited[k])
          /\ CellAt(ln_in.canvas, ln.visited[k]).char = "@"
          /\ CellAt(ln.canvas, ln.visited[k]).char = "@"
    /\ \E k \in 1..Len(ln.visited) :
          /\ InGrid(ln.visited[k])
          /\ CellAt(ln_in.canvas, ln.visited[k]).char = " "
          /\ CellAt(ln.canvas, ln.visited[k]).char = "-"

\* the stepwise loop returns the canvas draw_line returns, after exactly
\* LongerSpan steps
C30_StepsAgreeWithDrawLine ==
    ln.pc = "done" =>
        /\ ln.canvas = draw_line(ln_in.canvas, ln_in.x0, ln_in.y0, ln_in.x1, ln_in.y1,
                                 ln_in.char, ln_in.style)
        /\ Len(ln.visited) - 1 = LongerSpan

---------------------------------------------------------------------------
(* Properties of the apply-plan command (under SpecApply) *)

\* the plan row's channel or width is not the recommended one
RowDiffers(row) ==
    \/ row.current_channel # row.recommended_channel
    \/ row.current_width # row.recommended_width

\* the commands the plan calls for: one per differing row, in plan order
CommandsOfPlan ==
    LET rows == SelectSeq(apl.plan, RowDiffers)
    IN [k \in 1..Len(rows) |->
          [cmd |-> "set-radiotable", mac |-> rows[k].ap_mac,
           radio_table |-> <<[radio |-> IF rows[k].band = "2g" THEN "ng" ELSE "na",
                              channel |-> rows[k].recommended_channel,
                              ht |-> rows[k].recommended_width]>>]]

\* nothing is sent on a dry run, without a yes, or for a plan already met
NothingSentUnlessDue ==
    (\/ apl_in.dry_run
     \/ apl_in.answer # "yes"
     \/ \A r \in 1..Len(apl.plan) : ~RowDiffers(apl.plan[r]))
    => apl.sent = <<>>

\* what was sent are the first commands of the plan, all of them once the
\* command has finished after a yes
SentFollowsPlan ==
    /\ Len(apl.sent) <= Len(CommandsOfPlan)
    /\ apl.sent = SubSeq(CommandsOfPlan, 1, Len(apl.sent))
    /\ (apl.pc = "done" /\ apl.confirmed) => apl.sent = CommandsOfPlan

\* a step that sends a command comes after the listing and the yes
SentAfterListingAndYes ==
    apl'.sent # apl.sent =>
        /\ apl.listed
        /\ apl.confirmed
        /\ apl_in.answer = "yes"
        /\ ~apl_in.dry_run
        /\ Len(apl'.sent) = Len(apl.sent) + 1

\* C21: apply-plan sends no device command on a dry run, when the prompt is
\* answered with anything but 'yes', or when every plan row matches its
\* recommendation; commands are sent only after the changes were listed and
\* confirmed, one per plan row whose channel or width differs, in plan order.
C21_CommandsOnlyAfterConfirmation ==
    /\ [](NothingSentUnlessDue /\ SentFollowsPlan)
    /\ [][SentAfterListingAndYes]_vars

\* a confirmed run that finished: two commands for a plan of four rows, the
\* controller having refused one of them
C21_Witness ==
    /\ apl.pc = "done"
    /\ apl.confirmed
    /\ Len(apl.plan) = 4
    /\ Len(apl.sent) = 2
    /\ apl.sent = CommandsOfPlan
    /\ \E k \in 1..Len(apl.applied) : ~apl.applied[k]

\* a dry run that listed its changes and sent nothing
C21_DryRunListed ==
    apl.pc = "done" /\ apl_in.dry_run /\ apl.listed /\ apl.changes # <<>> /\ apl.sent = <<>>

\* a run whose plan is met: nothing listed, nothing sent
C21_PlanAlreadyMet ==
    apl.pc = "done" /\ apl.plan # <<>> /\ apl.changes = <<>> /\ ~apl.listed /\ apl.sent = <<>>

\* a confirmed run whose second login failed: nothing sent
C21_LoginFailed ==
    apl.pc = "exit" /\ apl.confirmed /\ apl.changes # <<>> /\ apl.sent = <<>>

=============================================================================
